---------------------------- MODULE Spec2Model ----------------------------
(***************************************************************************)
(* A model of the e-book scraper: the text-deduplication and content-     *)
(* segmentation core and the fetch loops of src/code/scraper.py, the      *)
(* batch loop of src/code/main.py, the anchor ids of                      *)
(* src/code/html_book.py and the crawl of src/scrap.py.                   *)
(*                                                                         *)
(* A Python str is a sequence of Unicode code points (naturals).  The     *)
(* character classes and mappings below are those of CPython's re and     *)
(* unicodedata modules, restricted to the code points the model uses.     *)
(***************************************************************************)
EXTENDS Integers, Sequences, FiniteSets, TLC

VARIABLES
    text,       \* normalizer: the argument of normalize_text
    norm,       \* normalizer: normalize_text(text)
    renorm,     \* normalizer: normalize_text(norm)
    npc,        \* normalizer: position of the run
    lhs,        \* matcher: one text
    rhs,        \* matcher: the other text
    similar12,  \* matcher: texts_are_similar(lhs, rhs)
    similar21,  \* matcher: texts_are_similar(rhs, lhs)
    mpc,        \* matcher: position of the run
    content,        \* pruner: the parsed html_content given to the first call
    ref_title,      \* pruner: the title given to both calls
    pruned,         \* pruner: the parsed result of the first call
    removed_count,  \* pruner: removed_count of the first call
    removed,        \* pruner: where in content the elements decomposed by the first call were
    repruned,       \* pruner: the parsed result of the second call
    removed_again,  \* pruner: removed_count of the second call
    ppc,            \* pruner: position of the run
    main_content,   \* segmenter: the parsed html_content given to extract_dedication
    book_info,      \* segmenter: the blocks of book_info_html
    dedication,     \* segmenter: the blocks of dedication_html
    body,           \* segmenter: the parsed cleaned_content
    book_info_at,   \* segmenter: where in main_content the blocks of book_info were
    dedication_at,  \* segmenter: where in main_content the blocks of dedication were
    body_at,        \* segmenter: where in main_content the top-level blocks of body were
    spc,            \* segmenter: position of the run
    dup_header,     \* title test: the header text given to is_title_duplicate
    dup_title,      \* title test: the title given to is_title_duplicate
    is_duplicate,   \* title test: is_title_duplicate(dup_header, dup_title)
    dpc,            \* title test: position of the run
    number_text,      \* number versions: the text given to normalize_bengali_numbers
    number_versions,  \* number versions: the list it returned
    vpc,              \* number versions: position of the run
    core_text,   \* core title: the text given to extract_core_title
    core_title,  \* core title: the str it returned
    cpc,         \* core title: position of the run
    max_retries,  \* get_soup: the argument max_retries
    attempt,      \* get_soup: the loop variable
    outcomes,     \* get_soup: what each session.get call did, in order
    sleeps,       \* get_soup: the time.sleep calls, each with the number of the attempt before it
    soup,         \* get_soup: the value returned
    gpc,          \* get_soup: position of the run
    BOOK_URLS,     \* batch: the configured books, by name, in order
    index,         \* batch: how many books the loop of main has been through
    successful,    \* batch: the counter successful
    failed,        \* batch: the counter failed
    failed_books,  \* batch: the list failed_books
    processed,     \* batch: the calls of process_book so far, each with the name and how it went
    bpc,           \* batch: position of the run
    existing,         \* make_unique_id: the set of ids given as existing
    existing_before,  \* make_unique_id: existing when the current call began
    slug,             \* make_unique_id: the local slug
    base,             \* make_unique_id: the local base
    counter,          \* make_unique_id: the local i
    returned,         \* make_unique_id: the ids returned by the calls so far, in order
    ipc,              \* make_unique_id: position of the run
    toc,            \* save_html: the argument toc
    content_items,  \* save_html: the argument content_items, without the content
    existing_ids,   \* save_html: the local existing_ids
    hrefs,          \* save_html: the ids in the links of the table of contents, in order
    sections,       \* save_html: the content sections written, each with its title and its id
    hpc,            \* save_html: position of the run
    page,       \* scrape_all_lessons: the local page
    requested,  \* scrape_all_lessons: the page numbers given to get_soup, in order
    reports,    \* scrape_all_lessons: what each fetch gave, in order
    lessons,    \* scrape_all_lessons: the local lessons, each lesson with the page it stood on
    lpc,        \* scrape_all_lessons: position of the run
    main_url,      \* crawl: the url of the outermost call
    links_of,      \* crawl: for each url, the links parse_content finds on its page
    visited_urls,  \* crawl: the set visited_urls
    stack,         \* crawl: the calls of scrape_page_and_links in progress, the innermost last
    fetched,       \* crawl: the urls given to fetch_page, in order
    saved          \* crawl: the urls given to save_to_file, in order

normVars == <<text, norm, renorm, npc>>
matchVars == <<lhs, rhs, similar12, similar21, mpc>>
pruneVars == <<content, ref_title, pruned, removed_count, removed, repruned, removed_again, ppc>>
segVars == <<main_content, book_info, dedication, body,
             book_info_at, dedication_at, body_at, spc>>
titleVars == <<dup_header, dup_title, is_duplicate, dpc>>
numberVars == <<number_text, number_versions, vpc>>
coreVars == <<core_text, core_title, cpc>>
soupVars == <<max_retries, attempt, outcomes, sleeps, soup, gpc>>
batchVars == <<BOOK_URLS, index, successful, failed, failed_books, processed, bpc>>
idVars == <<existing, existing_before, slug, base, counter, returned, ipc>>
htmlVars == <<toc, content_items, existing_ids, hrefs, sections, hpc>>
lessonVars == <<page, requested, reports, lessons, lpc>>
crawlVars == <<main_url, links_of, visited_urls, stack, fetched, saved>>
vars == <<normVars, matchVars, pruneVars, segVars, titleVars, numberVars,
         coreVars,
         soupVars,
         batchVars,
         idVars,
         htmlVars,
         lessonVars,
         crawlVars>>

(***************************************************************************)
(* Python values and str methods                                           *)
(***************************************************************************)

\* Python's None; a one-element tuple holding -1, which is no code point,
\* so it differs from every str.
None == <<-1>>

\* a variant that takes only None for false
IsNone(x) == x = None

\* `not x` for x a str or None
Falsy(x) == x = None \/ x = <<>>

\* an assignment to a local variable: the value is computed once and the
\* rest of the code reads it
Local(value, Rest(_)) == CHOOSE result \in {Rest(v) : v \in {value}} : TRUE

\* `sub in s`
Contains(s, sub) ==
    \E i \in 0..(Len(s) - Len(sub)) : SubSeq(s, i + 1, i + Len(sub)) = sub

StartsWith(s, sub) ==
    Len(sub) <= Len(s) /\ SubSeq(s, 1, Len(sub)) = sub

\* s.replace(old, new), old non-empty: leftmost non-overlapping occurrences
RECURSIVE Replace(_, _, _)
Replace(s, old, new) ==
    IF s = <<>> THEN <<>>
    ELSE IF StartsWith(s, old)
         THEN new \o Replace(SubSeq(s, Len(old) + 1, Len(s)), old, new)
         ELSE <<Head(s)>> \o Replace(Tail(s), old, new)

(***************************************************************************)
(* Character classes (CPython, Unicode)                                    *)
(***************************************************************************)

Between(c, lo, hi) == lo <= c /\ c <= hi

\* re's \s on str
IsSpace(c) == Between(c, 9, 13) \/ Between(c, 28, 32) \/ c = 133 \/ c = 160

\* str.isalnum(), on ASCII, the Bengali block, Hangul jamo and syllables
IsAlnum(c) ==
    \/ Between(c, 48, 57) \/ Between(c, 65, 90) \/ Between(c, 97, 122)
    \/ /\ Between(c, 2432, 2556)
       /\ \/ c = 2432 \/ Between(c, 2437, 2444) \/ Between(c, 2447, 2448)
          \/ Between(c, 2451, 2472) \/ Between(c, 2474, 2480) \/ c = 2482
          \/ Between(c, 2486, 2489) \/ c = 2493 \/ c = 2510
          \/ Between(c, 2524, 2525) \/ Between(c, 2527, 2529)
          \/ Between(c, 2534, 2545) \/ Between(c, 2548, 2553) \/ c = 2556
    \/ Between(c, 4352, 4607)
    \/ c = 44032

\* re's \w on str: alphanumeric or the underscore
IsWord(c) == IsAlnum(c) \/ c = 95

\* str.lower() of one code point
LowerChar(c) == IF Between(c, 65, 90) THEN c + 32 ELSE c

Lower(s) == [i \in 1..Len(s) |-> LowerChar(s[i])]

(***************************************************************************)
(* unicodedata.normalize('NFKC', s): compatibility decomposition, then     *)
(* canonical composition.                                                  *)
(***************************************************************************)

\* full compatibility decomposition of one code point
\*   U+00A0 NO-BREAK SPACE -> U+0020;  U+24B6 CIRCLED A -> U+0041;
\*   U+AC00 HANGUL GA -> U+1100 U+1161; U+09DF BENGALI YYA -> U+09AF U+09BC
Decomposition(c) ==
    CASE c = 160 -> <<32>>
      [] c = 9398 -> <<65>>
      [] c = 44032 -> <<4352, 4449>>
      [] c = 2527 -> <<2479, 2492>>
      [] OTHER -> <<c>>

RECURSIVE DecomposeEach(_)
DecomposeEach(s) ==
    IF s = <<>> THEN <<>> ELSE Decomposition(Head(s)) \o DecomposeEach(Tail(s))

Decompose(s) ==
    IF \A i \in 1..Len(s) : Decomposition(s[i]) = <<s[i]>> THEN s
    ELSE DecomposeEach(s)

\* primary composites: a starter and the code point right after it
\*   U+1100 U+1161 -> U+AC00   (U+09AF U+09BC is a composition exclusion)
Composable(c, d) == c = 4352 /\ d = 4449

Composite(c, d) == 44032

RECURSIVE ComposePairs(_)
ComposePairs(s) ==
    IF Len(s) < 2 THEN s
    ELSE IF Composable(s[1], s[2])
         THEN ComposePairs(<<Composite(s[1], s[2])>> \o SubSeq(s, 3, Len(s)))
         ELSE <<s[1]>> \o ComposePairs(Tail(s))

Compose(s) ==
    IF \A i \in 1..(Len(s) - 1) : ~Composable(s[i], s[i + 1]) THEN s
    ELSE ComposePairs(s)

NFKC(s) == Compose(Decompose(s))

(***************************************************************************)
(* normalize_text                                                          *)
(***************************************************************************)

\* re.sub(r'[^\w\s]', '', s)
StripSymbols(s) == SelectSeq(s, LAMBDA c : IsWord(c) \/ IsSpace(c))

\* re.sub(r'\s+', ' ', s): one space for each maximal run of whitespace
CollapseSpace(s) ==
    LET ends == SelectSeq([i \in 1..Len(s) |-> i],
                          LAMBDA i : \/ ~IsSpace(s[i])
                                     \/ i = Len(s)
                                     \/ ~IsSpace(s[i + 1]))
    IN  [k \in 1..Len(ends) |-> IF IsSpace(s[ends[k]]) THEN 32 ELSE s[ends[k]]]

\* s.strip()
Strip(s) ==
    IF \A i \in 1..Len(s) : IsSpace(s[i]) THEN <<>>
    ELSE SubSeq(s, CHOOSE i \in 1..Len(s) :
                       ~IsSpace(s[i]) /\ \A j \in 1..(i - 1) : IsSpace(s[j]),
                   CHOOSE i \in 1..Len(s) :
                       ~IsSpace(s[i]) /\ \A j \in (i + 1)..Len(s) : IsSpace(s[j]))

normalize_text(t) ==
    IF Falsy(t) THEN <<>>
    ELSE Strip(CollapseSpace(StripSymbols(Lower(NFKC(t)))))

(***************************************************************************)
(* normalize_bengali_numbers                                               *)
(***************************************************************************)

\* the word_to_digit dict display, entry by entry as written: every ordinal
\* word is written twice, first with the Bengali-digit ordinal and then with
\* the ASCII-digit ordinal
word_to_digit_items ==
    << <<(<<2474, 2509, 2480, 2469, 2478>>), (<<2535, 2478>>)>>,
       <<(<<2474, 2509, 2480, 2469, 2478>>), (<<49, 2478>>)>>,
       <<(<<2470, 2509, 2476, 2495, 2468, 2496, 2479, 2492>>), (<<2536, 2479, 2492>>)>>,
       <<(<<2470, 2509, 2476, 2495, 2468, 2496, 2479, 2492>>), (<<50, 2479, 2492>>)>>,
       <<(<<2468, 2499, 2468, 2496, 2479, 2492>>), (<<2537, 2479, 2492>>)>>,
       <<(<<2468, 2499, 2468, 2496, 2479, 2492>>), (<<51, 2479, 2492>>)>>,
       <<(<<2458, 2468, 2497, 2480, 2509, 2469>>), (<<2538, 2480, 2509, 2469>>)>>,
       <<(<<2458, 2468, 2497, 2480, 2509, 2469>>), (<<52, 2480, 2509, 2469>>)>>,
       <<(<<2474, 2462, 2509, 2458, 2478>>), (<<2539, 2478>>)>>,
       <<(<<2474, 2462, 2509, 2458, 2478>>), (<<53, 2478>>)>>,
       <<(<<2487, 2487, 2509, 2464>>), (<<2540, 2487, 2509, 2464>>)>>,
       <<(<<2487, 2487, 2509, 2464>>), (<<54, 2487, 2509, 2464>>)>>,
       <<(<<2488, 2474, 2509, 2468, 2478>>), (<<2541, 2478>>)>>,
       <<(<<2488, 2474, 2509, 2468, 2478>>), (<<55, 2478>>)>>,
       <<(<<2437, 2487, 2509, 2463, 2478>>), (<<2542, 2478>>)>>,
       <<(<<2437, 2487, 2509, 2463, 2478>>), (<<56, 2478>>)>>,
       <<(<<2472, 2476, 2478>>), (<<2543, 2478>>)>>,
       <<(<<2472, 2476, 2478>>), (<<57, 2478>>)>>,
       <<(<<2470, 2486, 2478>>), (<<2535, 2534, 2478>>)>>,
       <<(<<2470, 2486, 2478>>), (<<49, 48, 2478>>)>> >>

\* a table that keeps every entry as written, repeated keys included
EveryItem(items) == items

\* a dict display keeps one entry per key, at the place of the key's first
\* occurrence and with the value of its last
DictItems(items) ==
    LET first(i) == \A j \in 1..(i - 1) : items[j][1] # items[i][1]
        last(k)  == CHOOSE j \in 1..Len(items) :
                       /\ items[j][1] = k
                       /\ \A m \in (j + 1)..Len(items) : items[m][1] # k
        keep     == SelectSeq([i \in 1..Len(items) |-> i], first)
    IN  [n \in 1..Len(keep) |-> <<items[keep[n]][1], items[last(items[keep[n]][1])][2]>>]

word_to_digit == DictItems(word_to_digit_items)

\* bengali_to_english: U+09E6..U+09EF -> '0'..'9'; the loop of str.replace
\* calls, one per digit, replaces every Bengali digit by its ASCII digit
EnglishDigits(s) ==
    [i \in 1..Len(s) |-> IF s[i] \in 2534..2543 THEN s[i] - 2486 ELSE s[i]]

\* lines 130-131: each word and its digit form, normalized; they do not
\* depend on the text
word_to_digit_norm ==
    [i \in 1..Len(word_to_digit) |->
        <<normalize_text(word_to_digit[i][1]), normalize_text(word_to_digit[i][2])>>]

RECURSIVE WordVersions(_, _, _)
WordVersions(normalized, items, i) ==
    IF i > Len(items) THEN <<>>
    ELSE LET word_norm  == items[i][1]
             digit_norm == items[i][2]
         IN  (IF Contains(normalized, word_norm)
              THEN <<Replace(normalized, word_norm, digit_norm)>>
              ELSE <<>>) \o WordVersions(normalized, items, i + 1)

normalize_bengali_numbers(t) ==
    IF Falsy(t) THEN << <<>> >>
    ELSE Local(normalize_text(t), LAMBDA normalized :
         Local(EnglishDigits(normalized), LAMBDA english_version :
             <<normalized>>
             \o (IF english_version # normalized THEN <<english_version>> ELSE <<>>)
             \o WordVersions(normalized, word_to_digit_norm, 1)))

(***************************************************************************)
(* extract_core_title                                                      *)
(***************************************************************************)

\* s.split(): the maximal runs of non-whitespace
RECURSIVE SplitFrom(_, _)
SplitFrom(s, cur) ==
    IF s = <<>> THEN (IF cur = <<>> THEN <<>> ELSE <<cur>>)
    ELSE IF IsSpace(Head(s))
         THEN (IF cur = <<>> THEN <<>> ELSE <<cur>>) \o SplitFrom(Tail(s), <<>>)
         ELSE SplitFrom(Tail(s), Append(cur, Head(s)))

Split(s) == SplitFrom(s, <<>>)

\* ' '.join(parts)
RECURSIVE Join(_)
Join(parts) ==
    IF parts = <<>> THEN <<>>
    ELSE IF Len(parts) = 1 THEN parts[1]
         ELSE parts[1] \o <<32>> \o Join(Tail(parts))

author_indicators ==
    << <<2482, 2454, 2453>>, <<2437, 2472, 2476, 2470, 2453>>,
       <<2488, 2478, 2474, 2470, 2453>>, <<2480, 2474, 2472, 2468, 2480>>,
       <<2478, 2482>>, <<2437, 2472, 2476, 2470>>, <<2480, 2458, 2472>>,
       <<2488, 2453, 2482, 2472>> >>

\* a variant that takes a part for an indicator only when it is one
is_indicator_word(part) ==
    \E k \in 1..Len(author_indicators) : part = author_indicators[k]

is_author_indicator(part) ==
    \E k \in 1..Len(author_indicators) : Contains(part, author_indicators[k])

extract_core_title(t) ==
    IF Falsy(t) THEN <<>>
    ELSE LET parts == Split(normalize_text(t))
             stops == {i \in 2..Len(parts) : is_author_indicator(parts[i])}
             n     == IF stops = {} THEN Len(parts)
                      ELSE (CHOOSE i \in stops : \A j \in stops : i <= j) - 1
         IN  Join(SubSeq(parts, 1, n))

(***************************************************************************)
(* texts_are_similar                                                       *)
(***************************************************************************)

SubstringMinLen == 10
CoreMinLen == 5

common_prefixes ==
    << <<2482, 2454, 2453>>, <<2437, 2472, 2476, 2470, 2453>>,
       <<2488, 2478, 2474, 2470, 2453>>, <<2478, 2482>> >>

\* lines 189-200: the exact and the substring check on the normalized forms
NormalizedMatch(norm1, norm2) ==
    \/ norm1 = norm2
    \/ /\ Len(norm1) > SubstringMinLen
       /\ Len(norm2) > SubstringMinLen
       /\ (Contains(norm2, norm1) \/ Contains(norm1, norm2))

\* lines 203-214: the core-title checks
CoreMatch(text1, text2) ==
    \E core1 \in {extract_core_title(text1)}, core2 \in {extract_core_title(text2)} :
        /\ core1 # <<>> /\ core2 # <<>>
        /\ Len(core1) > CoreMinLen /\ Len(core2) > CoreMinLen
        /\ (core1 = core2 \/ Contains(core2, core1) \/ Contains(core1, core2))

\* lines 217-230: the Bengali-number versions, pair by pair
NumberMatch(text1, text2) ==
    \E versions1 \in {normalize_bengali_numbers(text1)},
       versions2 \in {normalize_bengali_numbers(text2)} :
        \E i \in 1..Len(versions1), j \in 1..Len(versions2) :
            LET v1 == versions1[i]
                v2 == versions2[j]
            IN  \/ v1 = v2
                \/ /\ Len(v1) > SubstringMinLen /\ Len(v2) > SubstringMinLen
                   /\ (Contains(v2, v1) \/ Contains(v1, v2))

\* lines 238-244 (and 247-253 with the roles exchanged): one form with the
\* prefix word removed, against the other form
WithoutPrefix(n, prefix) == CollapseSpace(Strip(Replace(n, prefix, <<>>)))

\* a variant that accepts the stripped form only when it equals the other
PrefixRemovedEqual(n, other, prefix) ==
    Contains(n, prefix) /\ WithoutPrefix(n, prefix) = other

PrefixRemovedMatch(n, other, prefix) ==
    /\ Contains(n, prefix)
    /\ \E without \in {WithoutPrefix(n, prefix)} :
           \/ without = other
           \/ Len(without) > SubstringMinLen /\ Contains(other, without)

\* a variant that tries the removal on the first form only
PrefixMatchFirstOnly(norm1, norm2) ==
    \E k \in 1..Len(common_prefixes) :
        PrefixRemovedMatch(norm1, norm2, common_prefixes[k])

PrefixMatch(norm1, norm2) ==
    \E k \in 1..Len(common_prefixes) :
        \/ PrefixRemovedMatch(norm1, norm2, common_prefixes[k])
        \/ PrefixRemovedMatch(norm2, norm1, common_prefixes[k])

\* a variant with the length guard of the substring check put in front of
\* every check
texts_are_similar_long_only(text1, text2) ==
    \E norm1 \in {normalize_text(text1)}, norm2 \in {normalize_text(text2)} :
        /\ Len(norm1) > SubstringMinLen
        /\ Len(norm2) > SubstringMinLen
        /\ \/ NormalizedMatch(norm1, norm2)
           \/ CoreMatch(text1, text2)
           \/ NumberMatch(text1, text2)
           \/ PrefixMatch(norm1, norm2)

texts_are_similar(text1, text2) ==
    \E norm1 \in {normalize_text(text1)}, norm2 \in {normalize_text(text2)} :
        \/ NormalizedMatch(norm1, norm2)
        \/ CoreMatch(text1, text2)
        \/ NumberMatch(text1, text2)
        \/ PrefixMatch(norm1, norm2)

(***************************************************************************)
(* is_section_duplicate, is_title_duplicate                                *)
(***************************************************************************)

\* section_mappings: each ordinal word with its variants, in order
section_mappings ==
    [i \in 1..Len(word_to_digit) |->
        <<word_to_digit[i][1],
          <<word_to_digit_items[2 * i - 1][2], word_to_digit[i][1],
            word_to_digit_items[2 * i][2]>> >>]

\* lines 301 and 305: the words and the variants, normalized
section_mappings_norm ==
    [i \in 1..Len(section_mappings) |->
        <<normalize_text(section_mappings[i][1]),
          [k \in 1..3 |-> normalize_text(section_mappings[i][2][k])]>>]

\* the normalized form of "khondo" (part): U+0996 U+09A3 U+09A1
section_marker == <<2454, 2467, 2465>>

is_section_duplicate(header_text, lesson_title) ==
    IF Falsy(lesson_title) THEN FALSE
    ELSE LET header_normalized == normalize_text(header_text)
             title_normalized  == normalize_text(lesson_title)
         IN  /\ Contains(header_normalized, section_marker)
             /\ \E i \in 1..Len(section_mappings_norm) :
                    /\ Contains(header_normalized, section_mappings_norm[i][1])
                    /\ \E k \in 1..3 :
                           /\ Contains(title_normalized, section_mappings_norm[i][2][k])
                           /\ Contains(title_normalized, section_marker)

\* a title test that only compares the normalized texts
is_same_normalized(header_text, main_title) ==
    normalize_text(header_text) = normalize_text(main_title)

\* a title test that stops after comparing the whole texts
is_similar_text(header_text, main_title) ==
    texts_are_similar(header_text, main_title)

is_title_duplicate(header_text, main_title) ==
    IF Falsy(main_title) \/ Falsy(header_text) THEN FALSE
    ELSE \/ texts_are_similar(header_text, main_title)
         \/ \E header_core \in {extract_core_title(header_text)},
               title_core \in {extract_core_title(main_title)} :
                /\ header_core # <<>> /\ title_core # <<>>
                /\ \/ texts_are_similar(header_core, title_core)
                   \/ /\ Len(header_core) > CoreMinLen
                      /\ Len(title_core) > CoreMinLen
                      /\ \/ Contains(title_core, header_core)
                         \/ Contains(header_core, title_core)

(***************************************************************************)
(* The document tree (BeautifulSoup, html.parser)                          *)
(*                                                                         *)
(* A node is a text node or an element with its children; a document is    *)
(* the sequence of the top-level nodes.  A node is named by its path, the  *)
(* child indices from the top.  decompose() takes the element out of the   *)
(* tree and empties it and everything below it: a decomposed element that  *)
(* is still held in a list has no parent, no children and no text.         *)
(***************************************************************************)

TextNode(s) == [tag |-> "#text", text |-> s, kids |-> <<>>]

Element(tag, kids) == [tag |-> tag, text |-> <<>>, kids |-> kids]

heading_tags == {"h1", "h2", "h3", "h4", "h5", "h6"}

list_tags == {"ol", "ul"}

RECURSIVE NodeAt(_, _)
NodeAt(forest, path) ==
    IF Len(path) = 1 THEN forest[path[1]]
    ELSE NodeAt(forest[path[1]].kids, Tail(path))

\* the paths of all nodes of the forest, in document order
RECURSIVE Walk(_, _, _)
Walk(forest, prefix, i) ==
    IF i > Len(forest) THEN <<>>
    ELSE <<Append(prefix, i)>>
         \o Walk(forest[i].kids, Append(prefix, i), 1)
         \o Walk(forest, prefix, i + 1)

IsPrefix(p, q) == Len(p) <= Len(q) /\ SubSeq(q, 1, Len(p)) = p

\* the node at path was decomposed, itself or with an ancestor
Decomposed(path, gone) == \E g \in gone : IsPrefix(g, path)

\* the nodes below path, in document order, that are still in the tree
DescendantsOf(doc, path, gone) ==
    IF Decomposed(path, gone) THEN <<>>
    ELSE SelectSeq(Walk(NodeAt(doc, path).kids, path, 1),
                   LAMBDA q : ~Decomposed(q, gone))

\* soup.find_all(tags)
find_all(doc, tags, gone) ==
    SelectSeq(Walk(doc, <<>>, 1),
              LAMBDA q : NodeAt(doc, q).tag \in tags /\ ~Decomposed(q, gone))

\* element.find_all(tags), and with recursive=False
find_all_in(doc, path, tags, gone) ==
    SelectSeq(DescendantsOf(doc, path, gone), LAMBDA q : NodeAt(doc, q).tag \in tags)

find_children(doc, path, tags, gone) ==
    SelectSeq(find_all_in(doc, path, tags, gone), LAMBDA q : Len(q) = Len(path) + 1)

\* a variant in which no element is found to stand in a list
no_parent(doc, path, tags, gone) == FALSE

\* element.find_parent(tags) is not None
has_parent(doc, path, tags, gone) ==
    /\ ~Decomposed(path, gone)
    /\ \E k \in 1..(Len(path) - 1) : NodeAt(doc, SubSeq(path, 1, k)).tag \in tags

RECURSIVE StrippedStrings(_, _, _)
StrippedStrings(doc, paths, i) ==
    IF i > Len(paths) THEN <<>>
    ELSE (IF NodeAt(doc, paths[i]).tag = "#text"
          THEN Strip(NodeAt(doc, paths[i]).text) ELSE <<>>)
         \o StrippedStrings(doc, paths, i + 1)

\* element.get_text(strip=True): the stripped strings below it, joined
get_text(doc, path, gone) ==
    StrippedStrings(doc, DescendantsOf(doc, path, gone), 1)

\* the tree without the decomposed nodes
RECURSIVE Remaining(_, _, _, _)
Remaining(forest, prefix, i, gone) ==
    IF i > Len(forest) THEN <<>>
    ELSE (IF Append(prefix, i) \in gone THEN <<>>
          ELSE << [forest[i] EXCEPT
                     !.kids = Remaining(forest[i].kids, Append(prefix, i), 1, gone)] >>)
         \o Remaining(forest, prefix, i + 1, gone)

\* BeautifulSoup(str(soup), "html.parser"): the markup written out and read
\* again; text nodes that have become neighbours come back as one
RECURSIVE Reparsed(_)
Reparsed(forest) ==
    IF forest = <<>> THEN <<>>
    ELSE IF /\ Len(forest) >= 2
            /\ forest[1].tag = "#text" /\ forest[2].tag = "#text"
         THEN Reparsed(<<TextNode(forest[1].text \o forest[2].text)>>
                       \o SubSeq(forest, 3, Len(forest)))
         ELSE <<[forest[1] EXCEPT !.kids = Reparsed(forest[1].kids)]>>
              \o Reparsed(Tail(forest))

(***************************************************************************)
(* remove_redundant_headers                                                *)
(***************************************************************************)

\* lines 346-368: the loop over the headings found before any removal;
\* st = [gone, count]
RECURSIVE HeadingLoop(_, _, _, _, _)
HeadingLoop(doc, title, headings, i, st) ==
    IF i > Len(headings) THEN st
    ELSE Local(get_text(doc, headings[i], st.gone), LAMBDA t :
         Local(IF /\ ~has_parent(doc, headings[i], list_tags, st.gone)
                  /\ t # <<>>
                  /\ \/ is_title_duplicate(t, title)
                     \/ is_section_duplicate(t, title)
               THEN [gone |-> st.gone \cup {headings[i]}, count |-> st.count + 1]
               ELSE st,
               LAMBDA next : HeadingLoop(doc, title, headings, i + 1, next)))

\* lines 384-411: the loop over the strong tags of one paragraph; TRUE when
\* the paragraph is to be removed
RECURSIVE StrongLoop(_, _, _, _, _, _)
StrongLoop(doc, title, para, strong_tags, k, gone) ==
    IF k > Len(strong_tags) THEN FALSE
    ELSE \E strong_text \in {get_text(doc, strong_tags[k], gone)},
            p_text \in {get_text(doc, para, gone)} :
             \/ /\ strong_text # <<>>
                /\ IF is_title_duplicate(strong_text, title)
                   THEN 2 * Len(normalize_text(p_text))
                            < 3 * Len(normalize_text(strong_text))
                   ELSE is_section_duplicate(strong_text, title)
             \/ StrongLoop(doc, title, para, strong_tags, k + 1, gone)

\* lines 379-382: the direct strong children, or else all strong tags
strong_tags_of(doc, para, gone) ==
    Local(find_children(doc, para, {"strong"}, gone), LAMBDA direct :
        IF direct # <<>> THEN direct
        ELSE find_all_in(doc, para, {"strong"}, gone))

\* lines 371-411: the loop over the paragraphs found after the heading loop
RECURSIVE ParagraphLoop(_, _, _, _, _)
ParagraphLoop(doc, title, paragraphs, i, st) ==
    IF i > Len(paragraphs) THEN st
    ELSE Local(IF /\ ~has_parent(doc, paragraphs[i], list_tags, st.gone)
                  /\ StrongLoop(doc, title, paragraphs[i],
                                strong_tags_of(doc, paragraphs[i], st.gone), 1, st.gone)
               THEN [gone |-> st.gone \cup {paragraphs[i]}, count |-> st.count + 1]
               ELSE st,
               LAMBDA next : ParagraphLoop(doc, title, paragraphs, i + 1, next))

\* the parsed form of the returned markup, removed_count, and where the
\* decomposed elements were
remove_redundant_headers(html_content, title) ==
    IF html_content = <<>> THEN [doc |-> html_content, count |-> 0, gone |-> {}]
    ELSE IF Falsy(title) THEN [doc |-> Reparsed(html_content), count |-> 0, gone |-> {}]
    ELSE Local(HeadingLoop(html_content, title,
                           find_all(html_content, heading_tags, {}), 1,
                           [gone |-> {}, count |-> 0]),
               LAMBDA after_headings :
         Local(ParagraphLoop(html_content, title,
                             find_all(html_content, {"p"}, after_headings.gone), 1,
                             after_headings),
               LAMBDA after_paragraphs :
                   [doc   |-> Reparsed(Remaining(html_content, <<>>, 1,
                                                 after_paragraphs.gone)),
                    count |-> after_paragraphs.count,
                    gone  |-> after_paragraphs.gone]))

(***************************************************************************)
(* The normalizer run: normalize_text applied to an input, then to its own *)
(* result.                                                                 *)
(***************************************************************************)

MaxLen == 3

\* a lower-case and an upper-case letter, a digit, the underscore, a full
\* stop, a space, a no-break space, the Bengali letter LA and vowel sign E,
\* the Hangul jamo KIYEOK and A, and the symbol CIRCLED LATIN CAPITAL A
NormChars == {97, 65, 49, 95, 46, 32, 160, 2482, 2503, 4352, 4449, 9398}

RECURSIVE StringsOver(_, _)
StringsOver(chars, n) ==
    IF n = 0 THEN {<<>>}
    ELSE LET shorter == StringsOver(chars, n - 1)
         IN  shorter \cup {Append(s, c) : s \in {x \in shorter : Len(x) = n - 1},
                                           c \in chars}

NormInputs == StringsOver(NormChars, MaxLen) \cup {None}

NormIdle ==
    /\ text = <<>> /\ norm = <<>> /\ renorm = <<>> /\ npc = "idle"

MatchIdle ==
    /\ lhs = <<>> /\ rhs = <<>>
    /\ similar12 = FALSE /\ similar21 = FALSE /\ mpc = "idle"

PruneIdle ==
    /\ content = <<>> /\ ref_title = <<>>
    /\ pruned = <<>> /\ removed_count = 0 /\ removed = {}
    /\ repruned = <<>> /\ removed_again = 0 /\ ppc = "idle"

SegIdle ==
    /\ main_content = <<>> /\ book_info = <<>> /\ dedication = <<>> /\ body = <<>>
    /\ book_info_at = <<>> /\ dedication_at = <<>> /\ body_at = <<>>
    /\ spc = "idle"

TitleIdle ==
    /\ dup_header = <<>> /\ dup_title = <<>> /\ is_duplicate = FALSE /\ dpc = "idle"

NumberIdle ==
    /\ number_text = <<>> /\ number_versions = <<>> /\ vpc = "idle"

CoreIdle ==
    /\ core_text = <<>> /\ core_title = <<>> /\ cpc = "idle"

SoupIdle ==
    /\ max_retries = 0 /\ attempt = 0 /\ outcomes = <<>> /\ sleeps = <<>>
    /\ soup = "pending" /\ gpc = "idle"

BatchIdle ==
    /\ BOOK_URLS = <<>> /\ index = 0 /\ successful = 0 /\ failed = 0
    /\ failed_books = <<>> /\ processed = <<>> /\ bpc = "idle"

IdIdle ==
    /\ existing = {} /\ existing_before = {} /\ slug = <<>> /\ base = <<>>
    /\ counter = 0 /\ returned = <<>> /\ ipc = "idle"

HtmlIdle ==
    /\ toc = <<>> /\ content_items = <<>> /\ existing_ids = {}
    /\ hrefs = <<>> /\ sections = <<>> /\ hpc = "idle"

LessonIdle ==
    /\ page = 0 /\ requested = <<>> /\ reports = <<>> /\ lessons = <<>> /\ lpc = "idle"

CrawlIdle ==
    /\ main_url = <<>> /\ links_of = <<>> /\ visited_urls = {}
    /\ stack = <<>> /\ fetched = <<>> /\ saved = <<>>

NormInit ==
    /\ MatchIdle /\ PruneIdle /\ SegIdle /\ TitleIdle /\ NumberIdle /\ CoreIdle /\ SoupIdle /\ BatchIdle /\ IdIdle /\ HtmlIdle /\ LessonIdle /\ CrawlIdle
    /\ text \in NormInputs
    /\ norm = <<>>
    /\ renorm = <<>>
    /\ npc = "input"

Normalize ==
    /\ npc = "input"
    /\ norm' = normalize_text(text)
    /\ npc' = "normalized"
    /\ UNCHANGED <<text, renorm, matchVars, pruneVars, segVars, titleVars, numberVars, coreVars, soupVars, batchVars, idVars, htmlVars, lessonVars, crawlVars>>

Renormalize ==
    /\ npc = "normalized"
    /\ renorm' = normalize_text(norm)
    /\ npc' = "renormalized"
    /\ UNCHANGED <<text, norm, matchVars, pruneVars, segVars, titleVars, numberVars, coreVars, soupVars, batchVars, idVars, htmlVars, lessonVars, crawlVars>>

NormNext == Normalize \/ Renormalize

SpecNorm == NormInit /\ [][NormNext]_vars

(***************************************************************************)
(* Claims about normalize_text                                             *)
(***************************************************************************)

\* C1: normalize_text is idempotent: normalizing a normalized text gives the
\* same text again.
NormalizeIdempotent == npc = "renormalized" => renorm = norm

\* Unicode general category P* or S* (punctuation, symbol), on the code
\* points of the model: the ASCII punctuation, DEVANAGARI DANDA, EM DASH and
\* CIRCLED LATIN CAPITAL LETTER A
IsSymbolOrPunctuation(c) ==
    \/ Between(c, 33, 47) \/ Between(c, 58, 64)
    \/ Between(c, 91, 96) \/ Between(c, 123, 126)
    \/ c = 2404 \/ c = 8212 \/ c = 9398

OnlySymbols(s) ==
    s # None /\ \A i \in 1..Len(s) : IsSymbolOrPunctuation(s[i])

\* C2: the empty string, None and every string made only of symbol or
\* punctuation characters normalize to the empty string.
NormalizeSymbolsToEmpty ==
    npc # "input" /\ (text = <<>> \/ text = None \/ OnlySymbols(text))
        => norm = <<>>

\* C3: the result of normalize_text holds only letters, digits and single
\* spaces, and neither starts nor ends with a space.
NormalizeOnlyLettersDigitsSpaces ==
    npc # "input" =>
        /\ \A i \in 1..Len(norm) : IsAlnum(norm[i]) \/ norm[i] = 32
        /\ \A i \in 1..(Len(norm) - 1) : ~(norm[i] = 32 /\ norm[i + 1] = 32)
        /\ norm # <<>> => norm[1] # 32 /\ norm[Len(norm)] # 32

(***************************************************************************)
(* The matcher run: texts_are_similar applied to two texts, in both        *)
(* argument orders.                                                        *)
(***************************************************************************)

MaxWords == 2

\* the words the texts are made of:
\*   "Kitab!" and "kitaber" (Latin; 5 and 7 characters once normalized),
\*   "lekhok" (author) U+09B2 U+09C7 U+0996 U+0995,
\*   "prothom" (first) U+09AA U+09CD U+09B0 U+09A5 U+09AE,
\*   "1m" (1st) U+09E7 U+09AE, and the dash U+2014
MatchWords ==
    { <<75, 105, 116, 97, 98, 33>>,
      <<107, 105, 116, 97, 98, 101, 114>>,
      <<2482, 2503, 2454, 2453>>,
      <<2474, 2509, 2480, 2469, 2478>>,
      <<2535, 2478>>,
      <<8212>> }

\* the texts of at most n words, the words a space apart
RECURSIVE TextsOf(_, _)
TextsOf(words, n) ==
    IF n = 0 THEN {<<>>}
    ELSE LET shorter == TextsOf(words, n - 1)
         IN  shorter \cup words
                     \cup {s \o <<32>> \o w : s \in shorter \ {<<>>}, w \in words}

MatchTexts == TextsOf(MatchWords, MaxWords)

MatchInit ==
    /\ NormIdle /\ PruneIdle /\ SegIdle /\ TitleIdle /\ NumberIdle /\ CoreIdle /\ SoupIdle /\ BatchIdle /\ IdIdle /\ HtmlIdle /\ LessonIdle /\ CrawlIdle
    /\ lhs \in MatchTexts
    /\ rhs \in MatchTexts
    /\ similar12 = FALSE
    /\ similar21 = FALSE
    /\ mpc = "input"

Compare ==
    /\ mpc = "input"
    /\ similar12' = texts_are_similar(lhs, rhs)
    /\ mpc' = "compared"
    /\ UNCHANGED <<lhs, rhs, similar21, normVars, pruneVars, segVars, titleVars, numberVars, coreVars, soupVars, batchVars, idVars, htmlVars, lessonVars, crawlVars>>

CompareSwapped ==
    /\ mpc = "compared"
    /\ similar21' = texts_are_similar(rhs, lhs)
    /\ mpc' = "swapped"
    /\ UNCHANGED <<lhs, rhs, similar12, normVars, pruneVars, segVars, titleVars, numberVars, coreVars, soupVars, batchVars, idVars, htmlVars, lessonVars, crawlVars>>

MatchNext == Compare \/ CompareSwapped

SpecMatch == MatchInit /\ [][MatchNext]_vars

(***************************************************************************)
(* Claims about texts_are_similar                                          *)
(***************************************************************************)

\* C4: texts_are_similar(a, a) is true for every non-empty text a.
SimilarReflexive ==
    mpc # "input" /\ lhs = rhs /\ lhs # <<>> => similar12

\* a text compared with itself whose normalized form is too short for the
\* substring and the core-title checks
SimilarReflexiveWitness ==
    /\ mpc = "compared"
    /\ lhs = rhs
    /\ normalize_text(lhs) # <<>>
    /\ Len(normalize_text(lhs)) <= CoreMinLen
    /\ similar12

\* C5: texts_are_similar(a, b) = texts_are_similar(b, a) for all texts a
\* and b, also when the prefix-removal step decides.
SimilarCommutative ==
    mpc = "swapped" => similar12 = similar21

\* two texts that only the prefix-removal step makes similar, compared in
\* both orders
SimilarCommutativeWitness ==
    /\ mpc = "swapped"
    /\ similar12 /\ similar21
    /\ ~NormalizedMatch(normalize_text(lhs), normalize_text(rhs))
    /\ ~CoreMatch(lhs, rhs)
    /\ ~NumberMatch(lhs, rhs)
    /\ normalize_text(rhs) # <<>>
    /\ PrefixRemovedMatch(normalize_text(lhs), normalize_text(rhs), common_prefixes[1])

(***************************************************************************)
(* The pruner run: remove_redundant_headers applied to a document, then to *)
(* its own result, with the same title.                                    *)
(***************************************************************************)

MaxBlocks == 1

\* "Kitab!", "golpo" and the dash U+2014
PruneTexts ==
    { <<75, 105, 116, 97, 98, 33>>,
      <<103, 111, 108, 112, 111>>,
      <<8212>> }

\* "prothom khondo" (first part)
SectionText == <<2474, 2509, 2480, 2469, 2478, 32, 2454, 2467, 2509, 2465>>

\* no title, the empty title, "Kitab!" and "Kitab! 1m khondo" (1st part,
\* with the Bengali digit)
PruneTitles ==
    { None,
      <<>>,
      <<75, 105, 116, 97, 98, 33>>,
      <<75, 105, 116, 97, 98, 33, 32, 2535, 2478, 32, 2454, 2467, 2509, 2465>> }

Strong(t) == Element("strong", <<TextNode(t)>>)

\* the top-level blocks: a heading; a heading holding a heading; a
\* paragraph that is one strong tag; a strong tag and more text; a plain
\* paragraph; a heading and a strong paragraph inside a list; a heading
\* holding a strong paragraph; a strong paragraph holding another; and, with
\* the section text, a heading, a strong paragraph, a strong tag followed by
\* "golpo", and a heading inside a list
PruneBlocks ==
    {Element("h2", <<TextNode(t)>>) : t \in PruneTexts}
    \cup {Element("h1", <<TextNode(t), Element("h2", <<TextNode(u)>>)>>) :
              t \in PruneTexts, u \in PruneTexts}
    \cup {Element("p", <<Strong(t)>>) : t \in PruneTexts}
    \cup {Element("p", <<Strong(t), TextNode(u)>>) : t \in PruneTexts, u \in PruneTexts}
    \cup {Element("p", <<TextNode(t)>>) : t \in PruneTexts}
    \cup {Element("ul", <<Element("li", <<Element("h3", <<TextNode(t)>>)>>)>>) :
              t \in PruneTexts}
    \cup {Element("ul", <<Element("li", <<Element("p", <<Strong(t)>>)>>)>>) :
              t \in PruneTexts}
    \cup {Element("h2", <<TextNode(t), Element("p", <<Strong(u)>>)>>) :
              t \in PruneTexts, u \in PruneTexts}
    \cup {Element("p", <<Strong(t), Element("p", <<Strong(u)>>)>>) :
              t \in PruneTexts, u \in PruneTexts}
    \cup { Element("h2", <<TextNode(SectionText)>>),
           Element("p", <<Strong(SectionText)>>),
           Element("p", <<Strong(SectionText), TextNode(<<103, 111, 108, 112, 111>>)>>),
           Element("ul", <<Element("li", <<Element("h3", <<TextNode(SectionText)>>)>>)>>) }

\* the documents of at most n blocks
RECURSIVE DocumentsOf(_, _)
DocumentsOf(blocks, n) ==
    IF n = 0 THEN {<<>>}
    ELSE LET shorter == DocumentsOf(blocks, n - 1)
         IN  shorter \cup {Append(d, b) : d \in shorter, b \in blocks}

PruneInit ==
    /\ NormIdle /\ MatchIdle /\ SegIdle /\ TitleIdle /\ NumberIdle /\ CoreIdle /\ SoupIdle /\ BatchIdle /\ IdIdle /\ HtmlIdle /\ LessonIdle /\ CrawlIdle
    /\ content \in DocumentsOf(PruneBlocks, MaxBlocks)
    /\ ref_title \in PruneTitles
    /\ pruned = <<>>
    /\ removed_count = 0
    /\ removed = {}
    /\ repruned = <<>>
    /\ removed_again = 0
    /\ ppc = "input"

Prune ==
    /\ ppc = "input"
    /\ \E r \in {remove_redundant_headers(content, ref_title)} :
           pruned' = r.doc /\ removed_count' = r.count /\ removed' = r.gone
    /\ ppc' = "pruned"
    /\ UNCHANGED <<content, ref_title, repruned, removed_again, normVars, matchVars, segVars, titleVars, numberVars, coreVars, soupVars, batchVars, idVars, htmlVars, lessonVars, crawlVars>>

PruneAgain ==
    /\ ppc = "pruned"
    /\ \E r \in {remove_redundant_headers(pruned, ref_title)} :
           repruned' = r.doc /\ removed_again' = r.count
    /\ ppc' = "repruned"
    /\ UNCHANGED <<content, ref_title, pruned, removed_count, removed, normVars, matchVars, segVars, titleVars, numberVars, coreVars, soupVars, batchVars, idVars, htmlVars, lessonVars, crawlVars>>

PruneNext == Prune \/ PruneAgain

SpecPrune == PruneInit /\ [][PruneNext]_vars

(***************************************************************************)
(* Claims about remove_redundant_headers                                   *)
(***************************************************************************)

\* C6: a second call on the result of the first, with the same title,
\* removes nothing.
PruneIdempotent == ppc = "repruned" => removed_again = 0

\* C7: with an empty or absent title the call removes nothing: the result
\* is the document given.
PruneEmptyTitleNoOp ==
    ppc # "input" /\ (ref_title = None \/ ref_title = <<>>)
        => removed_count = 0 /\ pruned = content

\* a call with the empty title on a document with a heading outside any
\* list whose text has nothing left once normalized
PruneEmptyTitleWitness ==
    /\ ppc = "pruned"
    /\ ref_title = <<>>
    /\ \E i \in 1..Len(content) :
           /\ content[i].tag \in heading_tags
           /\ get_text(content, <<i>>, {}) # <<>>
           /\ normalize_text(get_text(content, <<i>>, {})) = <<>>
    /\ pruned = content

(***************************************************************************)
(* extract_dedication                                                      *)
(*                                                                         *)
(* A regular expression of dedication_patterns is a list of words that are *)
(* to follow one another with any white space between them, anchored to   *)
(* both ends of the text up to white space or not.  book_info_html and     *)
(* dedication_html, paragraphs joined by a newline, are the sequences of   *)
(* those paragraphs.                                                       *)
(***************************************************************************)

DedicationMaxLen == 200

HeaderMaxLen == 50

translator_word == <<2437, 2472, 2497, 2476, 2494, 2470, 2453, 2503, 2480>>

author_word == <<2482, 2503, 2454, 2453, 2503, 2480>>

dedication_word == <<2441, 2510, 2488, 2480, 2509, 2455>>

acknowledgment_word == <<2453, 2499, 2468, 2460, 2509, 2462, 2468, 2494>>

dedication_patterns ==
    << [anchored |-> FALSE, words |-> <<translator_word, dedication_word>>],
       [anchored |-> FALSE, words |-> <<author_word, dedication_word>>],
       [anchored |-> TRUE,  words |-> <<dedication_word>>],
       [anchored |-> FALSE, words |-> <<acknowledgment_word>>] >>

\* the patterns that end the dedication at a new section header
section_header_patterns == <<dedication_patterns[4], dedication_patterns[3]>>

\* the positions just after a match of the words that starts at position i
RECURSIVE MatchEnds(_, _, _)
MatchEnds(s, i, words) ==
    IF ~StartsWith(SubSeq(s, i, Len(s)), Head(words)) THEN {}
    ELSE LET after == i + Len(Head(words))
         IN  IF Len(words) = 1 THEN {after}
             ELSE UNION { MatchEnds(s, j, Tail(words)) :
                            j \in { j \in after..(Len(s) + 1) :
                                      \A k \in after..(j - 1) : IsSpace(s[k]) } }

\* re.search(pattern, s, re.IGNORECASE) is not None; the words have no case
re_search(pattern, s) ==
    \E i \in 1..(Len(s) + 1) :
        /\ pattern.anchored => \A k \in 1..(i - 1) : IsSpace(s[k])
        /\ \E e \in MatchEnds(s, i, pattern.words) :
               pattern.anchored => \A k \in e..Len(s) : IsSpace(s[k])

\* any(re.search(pattern, s) for pattern in patterns)
any_search(patterns, s) ==
    \E k \in 1..Len(patterns) : re_search(patterns[k], s)

\* a variant of the header test that takes every text naming a dedication
mentions_dedication(strong_text) == Contains(strong_text, dedication_word)

\* a variant of the header test that takes the acknowledgment header too
is_any_marker(strong_text) == any_search(dedication_patterns, strong_text)

\* lines 498-499: the header that starts the dedication
is_dedication_header(strong_text) ==
    any_search(SubSeq(dedication_patterns, 1, 3), strong_text)

\* a variant of the length test that lets every paragraph through
never_very_long(next_text) == FALSE

\* line 531: very long content ends the dedication
is_very_long_content(next_text) == Len(next_text) > DedicationMaxLen

\* line 473 and line 535: the texts of a separator paragraph
\* a variant in which only the lone dot separates
only_dot_separates == {<<46>>}

separators_before_dedication == {<<46>>, <<2404>>, <<46, 46>>, <<46, 46, 46>>}

separators_after_dedication == {<<46>>, <<2404>>}

\* a variant of decompose that leaves the element in the tree
leave_in_tree(gone, element) == gone

\* element.decompose()
decompose(gone, element) == gone \cup {element}

\* element.find(tags): the first such tag below it, <<>> for None
find(doc, path, tags, gone) ==
    LET found == find_all_in(doc, path, tags, gone)
    IN  IF found = <<>> THEN <<>> ELSE found[1]

\* str(element)
outer_html(doc, path, gone) ==
    [NodeAt(doc, path) EXCEPT
        !.kids = Remaining(NodeAt(doc, path).kids, path, 1, gone)]

\* an entry of book_info_parts or dedication_parts: str(element), and where
\* the element was
part(doc, path, gone) == [at |-> path, html |-> outer_html(doc, path, gone)]

\* lines 451-460: the index of the first paragraph whose first strong tag
\* matches a pattern, -1 when there is none; i counts from 1
RECURSIVE find_dedication_index(_, _, _)
find_dedication_index(doc, all_paragraphs, i) ==
    IF i > Len(all_paragraphs) THEN -1
    ELSE LET strong == find(doc, all_paragraphs[i], {"strong"}, {})
         IN  IF /\ strong # <<>>
                /\ any_search(dedication_patterns, get_text(doc, strong, {}))
             THEN i - 1
             ELSE find_dedication_index(doc, all_paragraphs, i + 1)

\* lines 468-483: the paragraphs before the dedication header;
\* st = [gone, parts, dot_separator_found]
RECURSIVE BookInfoLoop(_, _, _, _, _)
BookInfoLoop(doc, all_paragraphs, i, dedication_index, st) ==
    IF i > dedication_index THEN st
    ELSE LET p      == all_paragraphs[i]
             p_text == get_text(doc, p, st.gone)
         IN  BookInfoLoop(doc, all_paragraphs, i + 1, dedication_index,
                 IF p_text \in separators_before_dedication
                 THEN [st EXCEPT !.dot_separator_found = TRUE,
                                 !.gone = decompose(st.gone, p)]
                 ELSE IF ~st.dot_separator_found
                 THEN [st EXCEPT !.parts = Append(st.parts, part(doc, p, st.gone)),
                                 !.gone = decompose(st.gone, p)]
                 ELSE st)

\* lines 514-541: the paragraphs after the dedication header;
\* st = [gone, parts]
RECURSIVE CollectLoop(_, _, _, _)
CollectLoop(doc, all_paragraphs, j, st) ==
    IF j > Len(all_paragraphs) THEN st
    ELSE LET next_p      == all_paragraphs[j]
             next_text   == get_text(doc, next_p, st.gone)
             next_strong == find(doc, next_p, {"strong"}, st.gone)
             next_strong_text == get_text(doc, next_strong, st.gone)
             collected   == [gone  |-> decompose(st.gone, next_p),
                             parts |-> Append(st.parts, part(doc, next_p, st.gone))]
             skipped     == [st EXCEPT !.gone = decompose(st.gone, next_p)]
         IN  IF next_strong # <<>>
             THEN IF any_search(section_header_patterns, next_strong_text)
                  THEN st
                  ELSE IF Len(next_strong_text) > HeaderMaxLen
                  THEN CollectLoop(doc, all_paragraphs, j + 1, collected)
                  ELSE st
             ELSE IF is_very_long_content(next_text) THEN st
             ELSE IF next_text # <<>> /\ next_text \notin separators_after_dedication
             THEN CollectLoop(doc, all_paragraphs, j + 1, collected)
             ELSE CollectLoop(doc, all_paragraphs, j + 1, skipped)

\* lines 492-549: the first dedication header and what follows it;
\* the result is [gone, parts]
RECURSIVE DedicationLoop(_, _, _, _)
DedicationLoop(doc, all_paragraphs, i, gone) ==
    IF i > Len(all_paragraphs) THEN [gone |-> gone, parts |-> <<>>]
    ELSE LET p      == all_paragraphs[i]
             strong == find(doc, p, {"strong"}, gone)
         IN  IF /\ strong # <<>>
                /\ is_dedication_header(get_text(doc, strong, gone))
             THEN LET st == CollectLoop(doc, all_paragraphs, i + 1,
                                        [gone  |-> gone,
                                         parts |-> <<part(doc, p, gone)>>])
                  IN  [st EXCEPT !.gone = decompose(st.gone, p)]
             ELSE DedicationLoop(doc, all_paragraphs, i + 1, gone)


\* lines 485-553: what is returned once the paragraphs before the header
\* are dealt with; before and after are the states the two loops end in
Returned(html_content, before, after) ==
    [book_info     |-> [k \in 1..Len(before.parts) |-> before.parts[k].html],
     dedication    |-> [k \in 1..Len(after.parts) |-> after.parts[k].html],
     body          |-> Reparsed(Remaining(html_content, <<>>, 1, after.gone)),
     book_info_at  |-> [k \in 1..Len(before.parts) |-> before.parts[k].at],
     dedication_at |-> [k \in 1..Len(after.parts) |-> after.parts[k].at],
     body_at       |-> SelectSeq([k \in 1..Len(html_content) |-> <<k>>],
                                 LAMBDA q : q \notin after.gone)]

AfterBookInfo(html_content, before) ==
    Returned(html_content, before,
             DedicationLoop(html_content,
                            find_all(html_content, {"p"}, before.gone), 1,
                            before.gone))

\* the blocks of book_info_html and of dedication_html, the parsed
\* cleaned_content, and where in html_content those blocks were
extract_dedication(html_content) ==
    IF html_content = <<>>
    THEN [book_info |-> <<>>, dedication |-> <<>>, body |-> html_content,
          book_info_at |-> <<>>, dedication_at |-> <<>>, body_at |-> <<>>]
    ELSE LET nothing == [gone |-> {}, parts |-> <<>>, dot_separator_found |-> FALSE]
             all_paragraphs   == find_all(html_content, {"p"}, {})
             dedication_index == find_dedication_index(html_content, all_paragraphs, 1)
         IN  AfterBookInfo(html_content,
                 IF dedication_index > 0
                 THEN BookInfoLoop(html_content, all_paragraphs, 1,
                                   dedication_index, nothing)
                 ELSE nothing)

(***************************************************************************)
(* The segmenter run: extract_dedication applied to a sequence of blocks.  *)
(***************************************************************************)

MaxParagraphs == 3

P(kids) == Element("p", kids)

\* "Book X", "to my mother" and "Chapter 1 text..."
BookText == <<66, 111, 111, 107, 32, 88>>

MotherText == <<116, 111, 32, 109, 121, 32, 109, 111, 116, 104, 101, 114>>

ChapterText == <<67, 104, 97, 112, 116, 101, 114, 32, 49, 32, 116, 101, 120, 116, 46, 46, 46>>

\* a text one character longer than very long content starts at, and a
\* strong text one character longer than a header may be
LongText == [k \in 1..(DedicationMaxLen + 1) |-> 97]

LongHeader == [k \in 1..(HeaderMaxLen + 1) |-> 98]

\* the strong texts: the bare dedication header, the translator's and the
\* author's, the acknowledgment header, a header that names a dedication
\* among other words, and one too long for a header
TranslatorHeader == translator_word \o <<32>> \o dedication_word

AuthorHeader == author_word \o dedication_word

OtherHeader == <<2470, 2503, 2486, 2503, 32>> \o dedication_word

\* the top-level blocks: a plain paragraph, the separators ".", ".." and
\* the danda, an empty paragraph, the headers, a very long paragraph, a
\* paragraph of a long strong text and a long text, and a heading
SegBlocks ==
    { P(<<TextNode(BookText)>>),
      P(<<TextNode(<<46>>)>>),
      P(<<TextNode(<<46, 46>>)>>),
      P(<<TextNode(<<2404>>)>>),
      P(<<>>),
      P(<<Strong(dedication_word)>>),
      P(<<Strong(TranslatorHeader)>>),
      P(<<Strong(acknowledgment_word)>>),
      P(<<Strong(OtherHeader)>>),
      P(<<Strong(LongHeader)>>),
      P(<<TextNode(LongText)>>),
      P(<<Strong(LongHeader), TextNode(LongText)>>),
      Element("h2", <<TextNode(BookText)>>) }

\* book information, a lone dot, a header, a dedication and a chapter
FiveBlocks(header, chapter) ==
    << P(<<TextNode(BookText)>>),
       P(<<TextNode(<<46>>)>>),
       P(<<Strong(header)>>),
       P(<<TextNode(MotherText)>>),
       P(<<TextNode(chapter)>>) >>

SegExamples ==
    { FiveBlocks(header, chapter) :
        header \in {dedication_word, TranslatorHeader, AuthorHeader,
                    acknowledgment_word, OtherHeader},
        chapter \in {ChapterText, LongText} }

SegInit ==
    /\ NormIdle /\ MatchIdle /\ PruneIdle /\ TitleIdle /\ NumberIdle /\ CoreIdle /\ SoupIdle /\ BatchIdle /\ IdIdle /\ HtmlIdle /\ LessonIdle /\ CrawlIdle
    /\ main_content \in DocumentsOf(SegBlocks, MaxParagraphs) \cup SegExamples
    /\ book_info = <<>> /\ dedication = <<>> /\ body = <<>>
    /\ book_info_at = <<>> /\ dedication_at = <<>> /\ body_at = <<>>
    /\ spc = "input"

Segment ==
    /\ spc = "input"
    /\ \E r \in {extract_dedication(main_content)} :
           /\ book_info' = r.book_info
           /\ dedication' = r.dedication
           /\ body' = r.body
           /\ book_info_at' = r.book_info_at
           /\ dedication_at' = r.dedication_at
           /\ body_at' = r.body_at
    /\ spc' = "segmented"
    /\ UNCHANGED <<main_content, normVars, matchVars, pruneVars, titleVars, numberVars, coreVars, soupVars, batchVars, idVars, htmlVars, lessonVars, crawlVars>>

SegNext == Segment

SpecSeg == SegInit /\ [][SegNext]_vars


(***************************************************************************)
(* Claims about extract_dedication                                         *)
(***************************************************************************)

\* a paragraph of the document has a strong tag whose text matches one of
\* the dedication patterns
HasMarker(doc) ==
    \E i \in 1..Len(doc) :
        /\ doc[i].tag = "p"
        /\ LET spans == find_all_in(doc, <<i>>, {"strong"}, {})
           IN  \E k \in 1..Len(spans) :
                   any_search(dedication_patterns, get_text(doc, spans[k], {}))

\* C8: when no paragraph has an emphasized span that matches a dedication
\* pattern, book_info and dedication are empty and the content comes back
\* as given.
SegmentNoMarker ==
    spc = "segmented" /\ ~HasMarker(main_content)
        => book_info = <<>> /\ dedication = <<>> /\ body = main_content

\* book information, a lone dot and a header that names a dedication among
\* other words: no pattern matches, and the content came back as given
SegmentNoMarkerWitness ==
    /\ spc = "segmented"
    /\ main_content = << P(<<TextNode(BookText)>>),
                         P(<<TextNode(<<46>>)>>),
                         P(<<Strong(OtherHeader)>>) >>
    /\ ~HasMarker(main_content)
    /\ body = main_content

Positions == book_info_at \o dedication_at \o body_at

NoBlockTwice(paths) ==
    \A a, b \in 1..Len(paths) : a # b => paths[a] # paths[b]

InInputOrder(paths) ==
    \A a, b \in 1..Len(paths) : a < b => paths[a][1] < paths[b][1]

\* the three results are the input blocks at the positions recorded
NoBlockInvented ==
    /\ \A k \in 1..Len(Positions) : Positions[k][1] \in 1..Len(main_content)
    /\ book_info = [k \in 1..Len(book_info_at) |-> NodeAt(main_content, book_info_at[k])]
    /\ dedication = [k \in 1..Len(dedication_at) |-> NodeAt(main_content, dedication_at[k])]
    /\ body = [k \in 1..Len(body_at) |-> NodeAt(main_content, body_at[k])]

\* the blocks that are in none of the three results
Discarded ==
    {i \in 1..Len(main_content) : \A k \in 1..Len(Positions) : Positions[k] # <<i>>}

IsSeparatorBlock(block) ==
    /\ block.tag = "p"
    /\ get_text(<<block>>, <<1>>, {}) \in separators_before_dedication

IsEmptyBlock(block) ==
    block.tag = "p" /\ get_text(<<block>>, <<1>>, {}) = <<>>

\* C9: every input block is in at most one of book_info, dedication and
\* body, no block is invented, and book_info followed by dedication
\* followed by body is the input in its original order without the
\* discarded separator blocks.
SegmentPartitionInOrder ==
    spc = "segmented" =>
        /\ NoBlockTwice(Positions)
        /\ NoBlockInvented
        /\ InInputOrder(Positions)
        /\ \A i \in Discarded : IsSeparatorBlock(main_content[i])

\* C9, amended: every input block is in at most one of book_info,
\* dedication and body, no block is invented, each of the three keeps the
\* input order, every block of book_info comes before every block of
\* dedication, and the blocks in none of the three are paragraphs that are
\* empty or a lone separator.
SegmentPartition ==
    spc = "segmented" =>
        /\ NoBlockTwice(Positions)
        /\ NoBlockInvented
        /\ InInputOrder(book_info_at \o dedication_at)
        /\ InInputOrder(body_at)
        /\ \A i \in Discarded :
               IsSeparatorBlock(main_content[i]) \/ IsEmptyBlock(main_content[i])

\* a run that filled all three results and discarded a block
SegmentPartitionWitness ==
    /\ spc = "segmented"
    /\ book_info_at # <<>> /\ dedication_at # <<>> /\ body_at # <<>>
    /\ Discarded # {}

\* the headers that match one of the three dedication patterns
DedicationHeaders == {dedication_word, TranslatorHeader, AuthorHeader}

\* C10: for the five blocks "Book X", a lone dot, a dedication header,
\* "to my mother" and "Chapter 1 text...", book_info is the first block,
\* dedication is the header and "to my mother", and body is the chapter.
SegmentFiveBlocks ==
    \A header \in DedicationHeaders :
        spc = "segmented" /\ main_content = FiveBlocks(header, ChapterText)
            => /\ book_info = <<P(<<TextNode(BookText)>>)>>
               /\ dedication = <<P(<<Strong(header)>>), P(<<TextNode(MotherText)>>)>>
               /\ body = <<P(<<TextNode(ChapterText)>>)>>

\* C10, amended: for those five blocks book_info is the first block; with
\* a fifth block of more than 200 characters dedication is the header and
\* "to my mother" and body is the fifth block; with the 17 characters of
\* "Chapter 1 text..." the fifth block is in dedication too and body is
\* empty.
SegmentFiveBlocksByLength ==
    \A header \in DedicationHeaders :
        /\ spc = "segmented" /\ main_content = FiveBlocks(header, LongText)
               => /\ book_info = <<P(<<TextNode(BookText)>>)>>
                  /\ dedication = <<P(<<Strong(header)>>), P(<<TextNode(MotherText)>>)>>
                  /\ body = <<P(<<TextNode(LongText)>>)>>
        /\ spc = "segmented" /\ main_content = FiveBlocks(header, ChapterText)
               => /\ book_info = <<P(<<TextNode(BookText)>>)>>
                  /\ dedication = <<P(<<Strong(header)>>), P(<<TextNode(MotherText)>>),
                                    P(<<TextNode(ChapterText)>>)>>
                  /\ body = <<>>

\* the five blocks with a bare dedication header and a very long chapter
SegmentFiveBlocksWitness ==
    /\ spc = "segmented"
    /\ main_content = FiveBlocks(dedication_word, LongText)
    /\ dedication_at = << <<3>>, <<4>> >>
    /\ body = <<P(<<TextNode(LongText)>>)>>


(***************************************************************************)
(* The ordinal run: texts_are_similar applied to two texts that are the    *)
(* same but for one ordinal, written as the word of a word_to_digit entry  *)
(* in the first text and as the digit form of that entry in the second.    *)
(***************************************************************************)

\* what stands before and after the ordinal: nothing or "Kitab! " before,
\* nothing, " khondo" (part) or " 2" (the Bengali digit U+09E8) after
OrdinalBefore == {<<>>, <<75, 105, 116, 97, 98, 33, 32>>}

OrdinalAfter == {<<>>, <<32, 2454, 2467, 2509, 2465>>, <<32, 2536>>}

OrdinalInit ==
    /\ NormIdle /\ PruneIdle /\ SegIdle /\ TitleIdle /\ NumberIdle /\ CoreIdle /\ SoupIdle /\ BatchIdle /\ IdIdle /\ HtmlIdle /\ LessonIdle /\ CrawlIdle
    /\ \E i \in 1..Len(word_to_digit_items), before \in OrdinalBefore, after \in OrdinalAfter :
          /\ lhs = before \o word_to_digit_items[i][1] \o after
          /\ rhs = before \o word_to_digit_items[i][2] \o after
    /\ similar12 = FALSE
    /\ similar21 = FALSE
    /\ mpc = "input"

SpecOrdinal == OrdinalInit /\ [][MatchNext]_vars

\* C11: two texts that differ only in that one writes an ordinal of the
\* table as a word and the other writes it as the Bengali-digit or the
\* ASCII-digit ordinal are similar, as "prothom khondo" and "1m khondo" are.
OrdinalVariantsSimilar ==
    mpc # "input" => similar12


(***************************************************************************)
(* The title-test run: is_title_duplicate applied to a header text and a   *)
(* title.                                                                  *)
(***************************************************************************)

\* what a text begins with: nothing, "boiyer nam" (name of the book),
\* "prothom" (first), "1m" (1st, with the Bengali digit), "Kitab! golpo"
TitleCores ==
    { <<>>,
      <<2476, 2439, 2479, 2492, 2503, 2480, 32, 2472, 2494, 2478>>,
      <<2474, 2509, 2480, 2469, 2478>>,
      <<2535, 2478>>,
      <<75, 105, 116, 97, 98, 33, 32, 103, 111, 108, 112, 111>> }

\* what follows: nothing, " -- lekhok" (author), " lekhok Kitab!",
\* " lekhok golpo"
TitleCredits ==
    { <<>>,
      <<32, 8212, 32, 2482, 2503, 2454, 2453>>,
      <<32, 2482, 2503, 2454, 2453, 32, 75, 105, 116, 97, 98, 33>>,
      <<32, 2482, 2503, 2454, 2453, 32, 103, 111, 108, 112, 111>> }

TitleTexts == {None} \cup {c \o t : c \in TitleCores, t \in TitleCredits}

TitleInit ==
    /\ NormIdle /\ MatchIdle /\ PruneIdle /\ SegIdle /\ NumberIdle /\ CoreIdle /\ SoupIdle /\ BatchIdle /\ IdIdle /\ HtmlIdle /\ LessonIdle /\ CrawlIdle
    /\ dup_header \in TitleTexts
    /\ dup_title \in TitleTexts
    /\ is_duplicate = FALSE
    /\ dpc = "input"

TestTitle ==
    /\ dpc = "input"
    /\ is_duplicate' = is_title_duplicate(dup_header, dup_title)
    /\ dpc' = "tested"
    /\ UNCHANGED <<dup_header, dup_title, normVars, matchVars, pruneVars, segVars, numberVars, coreVars, soupVars, batchVars, idVars, htmlVars, lessonVars, crawlVars>>

TitleNext == TestTitle

SpecTitle == TitleInit /\ [][TitleNext]_vars

(***************************************************************************)
(* Claims about is_title_duplicate                                         *)
(***************************************************************************)

\* C12: a header text whose core title (the tokens before the first
\* author-indicator token) equals the core title of the title, both longer
\* than 5 characters, is a title duplicate; "boiyer nam -- lekhok" is a
\* duplicate of "boiyer nam".
TitleDuplicateOnEqualCores ==
    /\ dpc = "tested"
    /\ extract_core_title(dup_header) = extract_core_title(dup_title)
    /\ Len(extract_core_title(dup_header)) > CoreMinLen
    => is_duplicate

\* the example: the header is the title followed by a dash and the author
\* word, and only the core titles are equal
TitleDuplicateExample ==
    /\ dpc = "tested"
    /\ dup_header = <<2476, 2439, 2479, 2492, 2503, 2480, 32, 2472, 2494, 2478,
                      32, 8212, 32, 2482, 2503, 2454, 2453>>
    /\ dup_title = <<2476, 2439, 2479, 2492, 2503, 2480, 32, 2472, 2494, 2478>>
    /\ normalize_text(dup_header) # normalize_text(dup_title)
    /\ extract_core_title(dup_header) = extract_core_title(dup_title)
    /\ Len(extract_core_title(dup_title)) > CoreMinLen
    /\ is_duplicate

\* C20: is_title_duplicate is true exactly when the two texts are similar,
\* or both core titles are non-empty and are equal or (both longer than 5
\* characters) one contains the other; nothing else makes it true, in
\* particular no number-version match between the two core titles alone.
TitleDuplicateOnlyByEqualOrContainedCores ==
    dpc = "tested" =>
        (is_duplicate <=>
            \/ texts_are_similar(dup_header, dup_title)
            \/ \E header_core \in {extract_core_title(dup_header)},
                  title_core \in {extract_core_title(dup_title)} :
                   /\ header_core # <<>> /\ title_core # <<>>
                   /\ \/ header_core = title_core
                      \/ /\ Len(header_core) > CoreMinLen
                         /\ Len(title_core) > CoreMinLen
                         /\ \/ Contains(title_core, header_core)
                            \/ Contains(header_core, title_core))

\* C20, following the code: is_title_duplicate is false when the header text
\* or the title is empty or None; otherwise it is true exactly when the two
\* texts are similar, or both core titles are non-empty and are similar to
\* each other (by any step of texts_are_similar, the number versions and the
\* prefix removal included) or (both longer than 5 characters) one contains
\* the other.
TitleDuplicateBySimilarCores ==
    dpc = "tested" =>
        (is_duplicate <=>
            /\ dup_header \notin {None, <<>>}
            /\ dup_title \notin {None, <<>>}
            /\ \/ texts_are_similar(dup_header, dup_title)
               \/ \E header_core \in {extract_core_title(dup_header)},
                     title_core \in {extract_core_title(dup_title)} :
                      /\ header_core # <<>> /\ title_core # <<>>
                      /\ \/ texts_are_similar(header_core, title_core)
                         \/ /\ Len(header_core) > CoreMinLen
                            /\ Len(title_core) > CoreMinLen
                            /\ \/ Contains(title_core, header_core)
                               \/ Contains(header_core, title_core))

\* a header and a title that are not similar and whose core titles, "prothom"
\* and "1m", are neither equal nor contained in one another but have a number
\* version in common
TitleDuplicateBySimilarCoresWitness ==
    /\ dpc = "tested"
    /\ is_duplicate
    /\ ~texts_are_similar(dup_header, dup_title)
    /\ extract_core_title(dup_header) # extract_core_title(dup_title)
    /\ ~Contains(extract_core_title(dup_header), extract_core_title(dup_title))
    /\ ~Contains(extract_core_title(dup_title), extract_core_title(dup_header))
    /\ NumberMatch(extract_core_title(dup_header), extract_core_title(dup_title))


(***************************************************************************)
(* The number-versions run: normalize_bengali_numbers applied to a text.   *)
(***************************************************************************)

MaxNumberWords == 3

\* the words the texts are made of: "prothom" (first), "dbitiyo" (second)
\* and "doshom" (tenth), which are keys of word_to_digit; "1m" (1st) with the
\* Bengali digit; the Bengali digit 2; and "Kitab!"
NumberWords ==
    { <<2474, 2509, 2480, 2469, 2478>>,
      <<2470, 2509, 2476, 2495, 2468, 2496, 2479, 2492>>,
      <<2470, 2486, 2478>>,
      <<2535, 2478>>,
      <<2536>>,
      <<75, 105, 116, 97, 98, 33>> }

NumberTexts == TextsOf(NumberWords, MaxNumberWords) \cup {None}

NumberInit ==
    /\ NormIdle /\ MatchIdle /\ PruneIdle /\ SegIdle /\ TitleIdle /\ CoreIdle /\ SoupIdle /\ BatchIdle /\ IdIdle /\ HtmlIdle /\ LessonIdle /\ CrawlIdle
    /\ number_text \in NumberTexts
    /\ number_versions = <<>>
    /\ vpc = "input"

NumberVersions ==
    /\ vpc = "input"
    /\ number_versions' = normalize_bengali_numbers(number_text)
    /\ vpc' = "done"
    /\ UNCHANGED <<number_text, normVars, matchVars, pruneVars, segVars, titleVars, coreVars, soupVars, batchVars, idVars, htmlVars, lessonVars, crawlVars>>

NumberNext == NumberVersions

SpecNumber == NumberInit /\ [][NumberNext]_vars

(***************************************************************************)
(* Claims about normalize_bengali_numbers                                  *)
(***************************************************************************)

IsBengaliDigit(c) == c \in 2534..2543

\* where in the table as written the ordinal words that occur in the
\* normalized text stand first, in table order
OrdinalWordsIn(normalized) ==
    SelectSeq([i \in 1..Len(word_to_digit_items) |-> i],
              LAMBDA i :
                  /\ \A j \in 1..(i - 1) :
                         word_to_digit_items[j][1] # word_to_digit_items[i][1]
                  /\ Contains(normalized, normalize_text(word_to_digit_items[i][1])))

\* the version is the normalized text with the ordinal word replaced by one
\* of the digit forms the table gives for it
IsWordVersion(version, normalized, word) ==
    /\ ~Contains(version, normalize_text(word))
    /\ \E j \in 1..Len(word_to_digit_items) :
           /\ word_to_digit_items[j][1] = word
           /\ version = Replace(normalized, normalize_text(word),
                                normalize_text(word_to_digit_items[j][2]))

\* C13: normalize_bengali_numbers returns a non-empty list that begins with
\* normalize_text(text); next comes the form with every Bengali digit
\* replaced by its ASCII digit, present only if there was a Bengali digit;
\* then one version per ordinal word of the table whose normalized form
\* occurs in the normalized text, in table order. A text with no Bengali
\* digit and no ordinal word of the table gives exactly the one-element list.
NumberVersionsInOrder ==
    vpc = "done" =>
        \E normalized \in {normalize_text(number_text)} :
            \E words \in {OrdinalWordsIn(normalized)},
               digits \in {IF \E i \in 1..Len(normalized) : IsBengaliDigit(normalized[i])
                           THEN 1 ELSE 0} :
                /\ number_versions # <<>>
                /\ number_versions[1] = normalized
                /\ Len(number_versions) = 1 + digits + Len(words)
                /\ digits = 1 =>
                       /\ Len(number_versions[2]) = Len(normalized)
                       /\ \A i \in 1..Len(normalized) :
                              number_versions[2][i] =
                                  IF IsBengaliDigit(normalized[i])
                                  THEN normalized[i] - 2534 + 48
                                  ELSE normalized[i]
                /\ \A m \in 1..Len(words) :
                       IsWordVersion(number_versions[1 + digits + m], normalized,
                                     word_to_digit_items[words[m]][1])
                /\ digits = 0 /\ words = <<>> => number_versions = <<normalized>>

\* a text with a Bengali digit and two ordinal words of the table: the list
\* has the normalized text, the ASCII-digit form and the two word versions
NumberVersionsWitness ==
    /\ vpc = "done"
    /\ Len(number_versions) = 4
    /\ \E i \in 1..Len(number_text) : IsBengaliDigit(number_text[i])
    /\ Len(OrdinalWordsIn(normalize_text(number_text))) = 2


(***************************************************************************)
(* Claims about the steps of extract_dedication                            *)
(***************************************************************************)

BlockText(block) == get_text(<<block>>, <<1>>, {})

HasStrong(block) == find(<<block>>, <<1>>, {"strong"}, {}) # <<>>

\* the text of the first strong tag of a block that has one
StrongText(block) ==
    get_text(<<block>>, find(<<block>>, <<1>>, {"strong"}, {}), {})

\* a paragraph whose first strong tag matches one of the patterns
IsMarkerBlock(block, patterns) ==
    /\ block.tag = "p"
    /\ \E strong \in {find(<<block>>, <<1>>, {"strong"}, {})} :
           /\ strong # <<>>
           /\ any_search(patterns, get_text(<<block>>, strong, {}))

\* the first marker block from block i on, 0 when there is none; blocks are
\* counted from 1
RECURSIVE FirstMarkerFrom(_, _)
FirstMarkerFrom(patterns, i) ==
    IF i > Len(main_content) THEN 0
    ELSE IF IsMarkerBlock(main_content[i], patterns) THEN i
    ELSE FirstMarkerFrom(patterns, i + 1)

\* the marker of step 1
MarkerIndex == FirstMarkerFrom(dedication_patterns, 1)

\* the first paragraph that matches one of the three dedication patterns
DedicationMarkerIndex == FirstMarkerFrom(SubSeq(dedication_patterns, 1, 3), 1)

\* a paragraph whose text is a lone dot, a lone danda, two dots or three
IsLoneSeparator(block) ==
    /\ block.tag = "p"
    /\ BlockText(block) \in {<<46>>, <<2404>>, <<46, 46>>, <<46, 46, 46>>}

\* the first lone separator before block d, 0 when there is none
SeparatorBefore(d) ==
    IF \E i \in 1..(d - 1) : IsLoneSeparator(main_content[i])
    THEN CHOOSE i \in 1..(d - 1) :
             /\ IsLoneSeparator(main_content[i])
             /\ \A j \in 1..(i - 1) : ~IsLoneSeparator(main_content[j])
    ELSE 0

\* the first lone separator before the marker
SeparatorIndex == SeparatorBefore(MarkerIndex)

InBookInfo(i) == \E k \in 1..Len(book_info_at) : book_info_at[k] = <<i>>

InDedication(i) == \E k \in 1..Len(dedication_at) : dedication_at[k] = <<i>>

InBody(i) == \E k \in 1..Len(body_at) : body_at[k] = <<i>>

\* C14: when the marker is not the first block and no block before it is a
\* lone separator, book_info is empty and every block before the marker is
\* still in the body.
SegmentNoSeparatorNoBookInfo ==
    /\ spc = "segmented"
    /\ MarkerIndex > 1
    /\ SeparatorIndex = 0
    => /\ book_info = <<>>
       /\ \A i \in 1..(MarkerIndex - 1) : InBody(i)

\* C15: when the marker is not the first block and the first lone separator
\* before it is block s, book_info is exactly the blocks before s in order,
\* the separator is in none of the three results, and the blocks between s
\* and the marker are still in the body; when the marker is the first block
\* book_info is empty.
SegmentBookInfoBeforeSeparator ==
    spc = "segmented" =>
        /\ MarkerIndex > 1 /\ SeparatorIndex # 0 =>
               /\ book_info_at = [k \in 1..(SeparatorIndex - 1) |-> <<k>>]
               /\ book_info = SubSeq(main_content, 1, SeparatorIndex - 1)
               /\ ~InBookInfo(SeparatorIndex)
               /\ ~InDedication(SeparatorIndex)
               /\ ~InBody(SeparatorIndex)
               /\ \A i \in (SeparatorIndex + 1)..(MarkerIndex - 1) : InBody(i)
        /\ MarkerIndex = 1 => book_info = <<>>

\* C15, following the code: book_info is exactly the paragraphs before s in
\* order; every lone separator before the marker, the first and any later
\* one, is in none of the three results; the blocks before the marker that
\* are no paragraphs, and the paragraphs between s and the marker that are no
\* lone separators, are still in the body; when the marker is the first
\* block book_info is empty.
SegmentBookInfoParagraphsBeforeSeparator ==
    spc = "segmented" =>
        \E d \in {MarkerIndex} : \E s \in {SeparatorBefore(d)} :
            /\ d > 1 /\ s # 0 =>
                   /\ book_info_at =
                          SelectSeq([k \in 1..(s - 1) |-> <<k>>],
                                    LAMBDA q : main_content[q[1]].tag = "p")
                   /\ book_info =
                          SelectSeq(SubSeq(main_content, 1, s - 1),
                                    LAMBDA block : block.tag = "p")
                   /\ \A i \in 1..(d - 1) :
                          IF IsLoneSeparator(main_content[i])
                          THEN ~InBookInfo(i) /\ ~InDedication(i) /\ ~InBody(i)
                          ELSE IF i > s \/ main_content[i].tag # "p"
                          THEN InBody(i)
                          ELSE InBookInfo(i)
            /\ d = 1 => book_info = <<>>

\* a paragraph, then the first lone separator, then the marker: the
\* paragraph is in book_info and the separator is in none of the results
SegmentBookInfoWitness ==
    /\ spc = "segmented"
    /\ MarkerIndex > 1 /\ SeparatorIndex > 1
    /\ \A i \in 1..(SeparatorIndex - 1) : InBookInfo(i)
    /\ ~InBookInfo(SeparatorIndex)
    /\ ~InDedication(SeparatorIndex)
    /\ ~InBody(SeparatorIndex)

\* by the three conditions of C16, the run stops at this block
StopsRun(block) ==
    /\ block.tag = "p"
    /\ \/ /\ HasStrong(block)
          /\ any_search(section_header_patterns, StrongText(block))
       \/ Len(BlockText(block)) > DedicationMaxLen
       \/ /\ HasStrong(block)
          /\ Len(StrongText(block)) < HeaderMaxLen
          /\ ~any_search(dedication_patterns, StrongText(block))

\* C16: the dedication run stops at the first paragraph after its first
\* block whose strong text matches the acknowledgment header or the bare
\* dedication header, or whose text is longer than 200 characters, or whose
\* strong text is shorter than 50 characters and matches no pattern: that
\* paragraph and every later block are not in dedication and are still in
\* the body. No paragraph with a text of more than 200 characters is in
\* dedication, with or without a strong tag.
SegmentRunStops ==
    spc = "segmented" /\ dedication_at # <<>> =>
        /\ \A i \in (dedication_at[1][1] + 1)..Len(main_content) :
               StopsRun(main_content[i]) =>
                   \A j \in i..Len(main_content) : ~InDedication(j) /\ InBody(j)
        /\ \A k \in 1..Len(dedication) :
               Len(BlockText(dedication[k])) <= DedicationMaxLen

\* C17: when step 1 finds a marker, whichever pattern it matches, the marker
\* paragraph is the first block of dedication and is no longer in the body,
\* and no block before it is in dedication.
SegmentRunStartsAtMarker ==
    spc = "segmented" /\ MarkerIndex > 0 =>
        /\ dedication_at # <<>>
        /\ dedication_at[1] = <<MarkerIndex>>
        /\ ~InBody(MarkerIndex)

\* C17, following the code: dedication starts at the first paragraph whose
\* strong text matches one of the three dedication patterns and that
\* paragraph is no longer in the body; a marker that only matches the
\* acknowledgment pattern is not in dedication and is still in the body;
\* without a paragraph matching one of the three, dedication is empty.
SegmentRunStartsAtDedicationHeader ==
    spc = "segmented" =>
        \E header \in {DedicationMarkerIndex}, d \in {MarkerIndex} :
            /\ header = 0 => dedication = <<>>
            /\ header # 0 =>
                   /\ dedication_at # <<>>
                   /\ dedication_at[1] = <<header>>
                   /\ InInputOrder(dedication_at)
                   /\ ~InBody(header)
            /\ d # 0 /\ d # header =>
                   /\ ~InDedication(d)
                   /\ InBody(d)

\* an acknowledgment header first and a dedication header after it: the
\* dedication starts at the second marker
SegmentRunStartsWitness ==
    /\ spc = "segmented"
    /\ MarkerIndex = 1
    /\ DedicationMarkerIndex > 1
    /\ dedication_at # <<>>
    /\ dedication_at[1] = <<DedicationMarkerIndex>>
    /\ InBody(1)


(***************************************************************************)
(* Claims about what remove_redundant_headers removes                      *)
(***************************************************************************)

\* the text is a title duplicate or a section duplicate of the title given
IsDuplicateText(t) ==
    is_title_duplicate(t, ref_title) \/ is_section_duplicate(t, ref_title)

\* where in the document given the elements with one of the tags are
ElementsOf(tags) ==
    {q \in {Walk(content, <<>>, 1)[k] : k \in 1..Len(Walk(content, <<>>, 1))} :
        NodeAt(content, q).tag \in tags}

\* the element stands inside an element with one of the tags
StandsIn(q, tags) ==
    \E k \in 1..(Len(q) - 1) : NodeAt(content, SubSeq(q, 1, k)).tag \in tags

\* an element that holds the element was decomposed by the first call
RemovedWithAncestor(q) ==
    \E k \in 1..(Len(q) - 1) : SubSeq(q, 1, k) \in removed

\* the element is not in the result of the first call
Absent(q) == q \in removed \/ RemovedWithAncestor(q)

\* C18: a paragraph is removed for a strong tag only when the strong text
\* is a title duplicate or a section duplicate and twice the length of the
\* normalized paragraph text is less than three times the length of the
\* normalized strong text; in the title case and in the section case alike,
\* a paragraph at or above that ratio is not removed.
PruneParagraphOnlyWhenMostlyStrong ==
    ppc # "input" =>
        \A q \in removed :
            NodeAt(content, q).tag = "p" =>
                \E k \in 1..Len(find_all_in(content, q, {"strong"}, {})) :
                    \E strong_text \in
                           {get_text(content, find_all_in(content, q, {"strong"}, {})[k], {})},
                       p_text \in {get_text(content, q, {})} :
                        /\ IsDuplicateText(strong_text)
                        /\ 2 * Len(normalize_text(p_text))
                               < 3 * Len(normalize_text(strong_text))

\* C19: a heading is removed if and only if it does not stand in a list and
\* its text is a title duplicate or a section duplicate; a heading in a list
\* is in the result whatever its text.
PruneHeadingIffDuplicate ==
    ppc # "input" =>
        \A q \in ElementsOf(heading_tags) :
            /\ Absent(q) <=>
                   /\ ~StandsIn(q, list_tags)
                   /\ IsDuplicateText(get_text(content, q, {}))
            /\ StandsIn(q, list_tags) => ~Absent(q)

\* C19, following the code: a heading is not in the result if and only if
\* an element that holds it was removed, or it does not stand in a list and
\* its text is a title duplicate or a section duplicate; a heading in a list
\* is not removed itself, and is in the result unless an element that holds
\* it was removed.
PruneHeadingIffDuplicateOrHeld ==
    ppc # "input" =>
        \A q \in ElementsOf(heading_tags) :
            /\ Absent(q) <=>
                   \/ RemovedWithAncestor(q)
                   \/ /\ ~StandsIn(q, list_tags)
                      /\ IsDuplicateText(get_text(content, q, {}))
            /\ StandsIn(q, list_tags) => q \notin removed

\* a heading outside any list whose text is a section duplicate and no
\* title duplicate was removed
PruneHeadingSectionWitness ==
    /\ ppc = "pruned"
    /\ \E q \in ElementsOf(heading_tags) :
           /\ ~StandsIn(q, list_tags)
           /\ ~is_title_duplicate(get_text(content, q, {}), ref_title)
           /\ is_section_duplicate(get_text(content, q, {}), ref_title)
           /\ q \in removed

(***************************************************************************)
(* The matcher run on titles that carry an attribution word: a lead word,  *)
(* then a title with the word "lekhok" before it, after it or not at all.  *)
(***************************************************************************)

PrefixLeads ==
    { <<>>,
      <<75, 105, 116, 97, 98, 33>>,
      <<2474, 2509, 2480, 2469, 2478>>,
      <<2535, 2478>> }

PrefixTails ==
    { <<>>,
      <<32, 2482, 2503, 2454, 2453>>,
      <<32, 107, 105, 116, 97, 98, 101, 114, 32, 103, 111, 108, 112, 111>>,
      <<32, 2482, 2503, 2454, 2453, 32, 107, 105, 116, 97, 98, 101, 114, 32, 103, 111, 108, 112, 111>>,
      <<32, 107, 105, 116, 97, 98, 101, 114, 32, 103, 111, 108, 112, 111, 32, 2482, 2503, 2454, 2453>> }

PrefixTexts == {lead \o tail : lead \in PrefixLeads, tail \in PrefixTails}

PrefixInit ==
    /\ NormIdle /\ PruneIdle /\ SegIdle /\ TitleIdle /\ NumberIdle /\ CoreIdle /\ SoupIdle /\ BatchIdle /\ IdIdle /\ HtmlIdle /\ LessonIdle /\ CrawlIdle
    /\ lhs \in PrefixTexts
    /\ rhs \in PrefixTexts
    /\ similar12 = FALSE
    /\ similar21 = FALSE
    /\ mpc = "input"

SpecPrefix == PrefixInit /\ [][MatchNext]_vars

\* the attribution words occur in both normalized forms or in neither
PrefixWordsShared(norm1, norm2) ==
    \A k \in 1..Len(common_prefixes) :
        Contains(norm1, common_prefixes[k]) <=> Contains(norm2, common_prefixes[k])

\* C21: the prefix step strips an attribution word from a normalized form
\* only when the word is in exactly one of the two forms; a word that is in
\* both forms gives no match.  So two texts whose forms share every
\* attribution word they have, and that pass none of the checks before the
\* prefix step, are not similar.
PrefixSharedNoMatch ==
    mpc # "input" =>
        \E norm1 \in {normalize_text(lhs)}, norm2 \in {normalize_text(rhs)} :
            /\ PrefixWordsShared(norm1, norm2)
            /\ ~NormalizedMatch(norm1, norm2)
            /\ ~CoreMatch(lhs, rhs)
            /\ ~NumberMatch(lhs, rhs)
            => ~similar12

\* the six checks, each on the values it compares
LongAndContained(a, b) ==
    Len(a) > 10 /\ Len(b) > 10 /\ (Contains(a, b) \/ Contains(b, a))

CoresAgree(core1, core2) ==
    /\ Len(core1) > 5 /\ Len(core2) > 5
    /\ (core1 = core2 \/ Contains(core1, core2) \/ Contains(core2, core1))

SomeVersionsAgree(versions1, versions2) ==
    \E i \in 1..Len(versions1), j \in 1..Len(versions2) :
        versions1[i] = versions2[j] \/ LongAndContained(versions1[i], versions2[j])

StrippedAgrees(form, other) ==
    \E k \in 1..Len(common_prefixes) :
        /\ Contains(form, common_prefixes[k])
        /\ \E stripped \in {CollapseSpace(Strip(Replace(form, common_prefixes[k], <<>>)))} :
               stripped = other \/ (Len(stripped) > 10 /\ Contains(other, stripped))

\* C22: texts_are_similar(a, b) is true if and only if one of the six
\* checks succeeds: (1) equal normalized forms; (2) both forms longer than
\* 10 and one contains the other; (3) equal core titles, both longer than 5;
\* (4) one core title contains the other, both longer than 5; (5) a pair of
\* numeral versions equal, or both longer than 10 and one contains the
\* other; (6) a form with an attribution word stripped equals the other
\* form, or is longer than 10 and contained in it.  Two different forms of
\* length at most 5 with no numeral or prefix match are never similar.
SimilarIffSomeCheck ==
    mpc # "input" =>
        \E norm1 \in {normalize_text(lhs)}, norm2 \in {normalize_text(rhs)},
           core1 \in {extract_core_title(lhs)}, core2 \in {extract_core_title(rhs)},
           versions1 \in {normalize_bengali_numbers(lhs)},
           versions2 \in {normalize_bengali_numbers(rhs)} :
            \E late \in {SomeVersionsAgree(versions1, versions2)
                         \/ StrippedAgrees(norm1, norm2) \/ StrippedAgrees(norm2, norm1)} :
                /\ similar12 <=> \/ norm1 = norm2
                                 \/ LongAndContained(norm1, norm2)
                                 \/ CoresAgree(core1, core2)
                                 \/ late
                /\ Len(norm1) <= 5 /\ Len(norm2) <= 5 /\ norm1 # norm2 /\ ~late
                   => ~similar12

\* two different short forms, compared and found not similar
SimilarIffSomeCheckWitness ==
    /\ mpc = "compared"
    /\ ~similar12
    /\ normalize_text(lhs) # normalize_text(rhs)
    /\ normalize_text(lhs) # <<>> /\ normalize_text(rhs) # <<>>
    /\ Len(normalize_text(lhs)) <= 5 /\ Len(normalize_text(rhs)) <= 5

(***************************************************************************)
(* The section-test run: is_section_duplicate applied to a header text and *)
(* a lesson title, each an ordinal in one of its three writings, with or   *)
(* without the word "khondo" after it.                                     *)
(***************************************************************************)

SectionTails == {<<>>, <<32, 2454, 2467, 2509, 2465>>}

SectionInputs ==
    {None}
    \cup {<<75, 105, 116, 97, 98, 33>> \o tail : tail \in SectionTails}
    \cup {section_mappings[i][2][k] \o tail :
             i \in 1..Len(section_mappings), k \in 1..3, tail \in SectionTails}

SectionInit ==
    /\ NormIdle /\ MatchIdle /\ PruneIdle /\ SegIdle /\ NumberIdle /\ CoreIdle /\ SoupIdle /\ BatchIdle /\ IdIdle /\ HtmlIdle /\ LessonIdle /\ CrawlIdle
    /\ dup_header \in SectionInputs
    /\ dup_title \in SectionInputs
    /\ is_duplicate = FALSE
    /\ dpc = "input"

TestSection ==
    /\ dpc = "input"
    /\ is_duplicate' = is_section_duplicate(dup_header, dup_title)
    /\ dpc' = "tested"
    /\ UNCHANGED <<dup_header, dup_title, normVars, matchVars, pruneVars, segVars, numberVars, coreVars, soupVars, batchVars, idVars, htmlVars, lessonVars, crawlVars>>

SectionNext == TestSection

SpecSection == SectionInit /\ [][SectionNext]_vars

\* the normalized text contains one of the three normalized variants of
\* the i-th ordinal
HasVariant(normalized, i) ==
    \E k \in 1..3 : Contains(normalized, section_mappings_norm[i][2][k])

\* C23: is_section_duplicate(heading, title) is true exactly when both
\* normalized texts contain the part marker and, for some ordinal of the
\* table, the heading's normalized text contains a variant of it (word,
\* Bengali-digit or ASCII-digit writing) and the title's normalized text
\* contains a variant of the same ordinal; it is false when either text
\* lacks the marker or the title is empty.
SectionDuplicateIffSharedOrdinal ==
    dpc = "tested" =>
        \E header_normalized \in {normalize_text(dup_header)},
           title_normalized \in {normalize_text(dup_title)} :
            is_duplicate <=>
                /\ Contains(header_normalized, section_marker)
                /\ Contains(title_normalized, section_marker)
                /\ \E i \in 1..Len(section_mappings_norm) :
                       HasVariant(header_normalized, i) /\ HasVariant(title_normalized, i)

(***************************************************************************)
(* The core-title run: extract_core_title applied to a text of a few       *)
(* words, some of them attribution words or words that contain one.        *)
(***************************************************************************)

MaxCoreWords == 3

CoreWords ==
    { <<75, 105, 116, 97, 98, 33>>,
      <<2482, 2503, 2454, 2453>>,
      <<2482, 2503, 2454, 2453, 2503, 2480>>,
      <<2437, 2472, 2497, 2476, 2494, 2470>>,
      <<97, 160, 65>>,
      <<8212>> }

CoreTexts == TextsOf(CoreWords, MaxCoreWords) \cup {None}

CoreInit ==
    /\ NormIdle /\ MatchIdle /\ PruneIdle /\ SegIdle /\ TitleIdle /\ NumberIdle /\ SoupIdle /\ BatchIdle /\ IdIdle /\ HtmlIdle /\ LessonIdle /\ CrawlIdle
    /\ core_text \in CoreTexts
    /\ core_title = <<>>
    /\ cpc = "input"

CoreTitle ==
    /\ cpc = "input"
    /\ core_title' = extract_core_title(core_text)
    /\ cpc' = "done"
    /\ UNCHANGED <<core_text, normVars, matchVars, pruneVars, segVars, titleVars, numberVars, soupVars, batchVars, idVars, htmlVars, lessonVars, crawlVars>>

CoreNext == CoreTitle

SpecCore == CoreInit /\ [][CoreNext]_vars

\* the token contains an attribution-indicator substring
HasIndicator(token) ==
    \E k \in 1..Len(author_indicators) : Contains(token, author_indicators[k])

\* C24: extract_core_title returns the normalized tokens before the first
\* token at position >= 1 that contains an attribution indicator, joined by
\* single spaces; the token at position 0 is kept even if it contains an
\* indicator; with no indicator token after position 0 the result is
\* normalize_text(text); the result is always a prefix of
\* normalize_text(text).
CoreTitleStopsAtIndicator ==
    cpc = "done" =>
        \E normalized \in {normalize_text(core_text)} :
            \E tokens \in {Split(normalized)} :
                /\ \E n \in 0..Len(tokens) :
                       /\ core_title = Join(SubSeq(tokens, 1, n))
                       /\ tokens # <<>> => n >= 1
                       /\ \A i \in 2..n : ~HasIndicator(tokens[i])
                       /\ n < Len(tokens) => HasIndicator(tokens[n + 1])
                /\ (\A i \in 2..Len(tokens) : ~HasIndicator(tokens[i]))
                   => core_title = normalized
                /\ StartsWith(normalized, core_title)

\* a text whose first token contains an indicator and is kept, cut at a
\* later token that contains one
CoreTitleWitness ==
    /\ cpc = "done"
    /\ core_title # <<>>
    /\ core_title # normalize_text(core_text)
    /\ HasIndicator(Split(core_title)[1])

(***************************************************************************)
(* get_soup (src/code/scraper.py): the retry loop around session.get.  A   *)
(* call of session.get returns a response or raises; each step below is   *)
(* one pass of the loop body.                                              *)
(***************************************************************************)

MaxRetries == 4

SSLWait == 5
RequestWait == 3

StatusCodes == {200, 403, 404}

\* a variant that counts the attempts from zero
wait_time_from_zero(n, seconds) == n * seconds

\* lines 47 and 53: wait_time = (attempt + 1) * 5, or * 3
wait_time(n, seconds) == (n + 1) * seconds

SoupInit ==
    /\ NormIdle /\ MatchIdle /\ PruneIdle /\ SegIdle /\ TitleIdle /\ NumberIdle /\ CoreIdle /\ BatchIdle /\ IdIdle /\ HtmlIdle /\ LessonIdle /\ CrawlIdle
    /\ max_retries \in 0..MaxRetries
    /\ attempt = 0
    /\ outcomes = <<>>
    /\ sleeps = <<>>
    /\ soup = "pending"
    /\ gpc = "loop"

\* lines 40-44: session.get returns a response
GetResponse ==
    /\ gpc = "loop"
    /\ attempt < max_retries
    /\ \E status_code \in StatusCodes :
          /\ outcomes' = Append(outcomes, [kind |-> "response", status |-> status_code])
          /\ soup' = IF status_code = 200 THEN "page" ELSE "None"
    /\ gpc' = "done"
    /\ UNCHANGED <<max_retries, attempt, sleeps, normVars, matchVars, pruneVars, segVars, titleVars, numberVars, coreVars, batchVars, idVars, htmlVars, lessonVars, crawlVars>>

\* a pass that ends in one of the two except clauses
Raised(kind, seconds) ==
    /\ gpc = "loop"
    /\ attempt < max_retries
    /\ outcomes' = Append(outcomes, [kind |-> kind, status |-> 0])
    /\ sleeps' = IF attempt < max_retries - 1
                 THEN Append(sleeps, <<attempt + 1, wait_time(attempt, seconds)>>)
                 ELSE sleeps
    /\ attempt' = attempt + 1
    /\ UNCHANGED <<max_retries, soup, gpc, normVars, matchVars, pruneVars, segVars, titleVars, numberVars, coreVars, batchVars, idVars, htmlVars, lessonVars, crawlVars>>

\* lines 45-50: session.get raises SSLError
GetSSLError == Raised("SSLError", SSLWait)

\* lines 51-56: session.get raises another RequestException
GetRequestException == Raised("RequestException", RequestWait)

\* lines 58-59: the loop is over
GetExhausted ==
    /\ gpc = "loop"
    /\ attempt >= max_retries
    /\ soup' = "None"
    /\ gpc' = "done"
    /\ UNCHANGED <<max_retries, attempt, outcomes, sleeps, normVars, matchVars, pruneVars, segVars, titleVars, numberVars, coreVars, batchVars, idVars, htmlVars, lessonVars, crawlVars>>

SoupNext == GetResponse \/ GetSSLError \/ GetRequestException \/ GetExhausted

SpecSoup == SoupInit /\ [][SoupNext]_vars

\* every call of session.get returns or raises (timeout=30) and every sleep
\* ends, so the loop keeps stepping
SpecSoupLive == SpecSoup /\ WF_vars(SoupNext)

\* the attempts, counted from 1, of the given kind that were followed by a
\* sleep of the given seconds per attempt
Slept(kind, seconds) ==
    {i \in 1..Len(outcomes) :
        /\ outcomes[i].kind = kind
        /\ <<i, seconds * i>> \in {sleeps[k] : k \in 1..Len(sleeps)}}

GetSoupSteps ==
    /\ Len(outcomes) <= max_retries
    /\ \A i \in 1..(Len(outcomes) - 1) : outcomes[i].kind # "response"
    /\ \A i \in 1..Len(outcomes) :
          outcomes[i].kind = "response" =>
              /\ gpc = "done"
              /\ soup = (IF outcomes[i].status = 200 THEN "page" ELSE "None")
    /\ Len(sleeps) = Cardinality({i \in 1..Len(outcomes) :
                                     outcomes[i].kind # "response" /\ i < max_retries})
    /\ Slept("SSLError", 5) = {i \in 1..Len(outcomes) :
                                  outcomes[i].kind = "SSLError" /\ i < max_retries}
    /\ Slept("RequestException", 3) = {i \in 1..Len(outcomes) :
                                  outcomes[i].kind = "RequestException" /\ i < max_retries}
    /\ gpc = "done" =>
          \/ outcomes # <<>> /\ outcomes[Len(outcomes)].kind = "response"
          \/ Len(outcomes) = max_retries /\ soup = "None"
    /\ gpc = "loop" => soup = "pending"

MaxBooks == 3

BookNames == {"a", "b"}

\* how a call of process_book can go: scrape_book_data returns data and the
\* two writers succeed; it returns nothing; or one of the three steps raises
Ways == {"generated", "no data", "scrape raised", "html raised", "epub raised"}

\* a variant without the test of line 19
process_book_unless_raised(way) == way \in {"generated", "no data"}

\* lines 17-33: the first component of what process_book returns
process_book(way) == way = "generated"

BatchInit ==
    /\ NormIdle /\ MatchIdle /\ PruneIdle /\ SegIdle /\ TitleIdle /\ NumberIdle /\ CoreIdle /\ SoupIdle /\ IdIdle /\ HtmlIdle /\ LessonIdle /\ CrawlIdle
    /\ BOOK_URLS \in UNION {[1..n -> BookNames] : n \in 0..MaxBooks}
    /\ index = 0
    /\ successful = 0
    /\ failed = 0
    /\ failed_books = <<>>
    /\ processed = <<>>
    /\ bpc = "start"

\* lines 36-38: nothing configured
MainNoBooks ==
    /\ bpc = "start"
    /\ BOOK_URLS = <<>>
    /\ bpc' = "exited"
    /\ UNCHANGED <<BOOK_URLS, index, successful, failed, failed_books, processed, normVars, matchVars, pruneVars, segVars, titleVars, numberVars, coreVars, soupVars, idVars, htmlVars, lessonVars, crawlVars>>

\* lines 40-48
MainStart ==
    /\ bpc = "start"
    /\ BOOK_URLS # <<>>
    /\ bpc' = "loop"
    /\ UNCHANGED <<BOOK_URLS, index, successful, failed, failed_books, processed, normVars, matchVars, pruneVars, segVars, titleVars, numberVars, coreVars, soupVars, idVars, htmlVars, lessonVars, crawlVars>>

\* lines 50-61: one pass of the loop, with the call of process_book
MainBook ==
    /\ bpc = "loop"
    /\ index < Len(BOOK_URLS)
    /\ \E way \in Ways :
          /\ processed' = Append(processed, <<BOOK_URLS[index + 1], way>>)
          /\ IF process_book(way)
             THEN /\ successful' = successful + 1
                  /\ UNCHANGED <<failed, failed_books>>
             ELSE /\ failed' = failed + 1
                  /\ failed_books' = Append(failed_books, BOOK_URLS[index + 1])
                  /\ UNCHANGED successful
    /\ index' = index + 1
    /\ UNCHANGED <<BOOK_URLS, bpc, normVars, matchVars, pruneVars, segVars, titleVars, numberVars, coreVars, soupVars, idVars, htmlVars, lessonVars, crawlVars>>

\* lines 63-75: the summary
MainSummary ==
    /\ bpc = "loop"
    /\ index = Len(BOOK_URLS)
    /\ bpc' = "complete"
    /\ UNCHANGED <<BOOK_URLS, index, successful, failed, failed_books, processed, normVars, matchVars, pruneVars, segVars, titleVars, numberVars, coreVars, soupVars, idVars, htmlVars, lessonVars, crawlVars>>

BatchNext == MainNoBooks \/ MainStart \/ MainBook \/ MainSummary

SpecBatch == BatchInit /\ [][BatchNext]_vars

\* the names of the calls that failed, in order
RECURSIVE FailedNames(_)
FailedNames(calls) ==
    IF calls = <<>> THEN <<>>
    ELSE IF calls[1][2] # "generated"
         THEN <<calls[1][1]>> \o FailedNames(Tail(calls))
         ELSE FailedNames(Tail(calls))

\* C26: in the batch loop every configured book is processed exactly once,
\* in configuration order, whatever happened to the books before it; a call
\* of process_book fails when scraping gives no data or a step raises; after
\* each book successful + failed is the number of books processed so far
\* and failed_books holds the names of the failed books in order; at the
\* end successful + failed is the total.
BatchCountsEveryBook ==
    /\ Len(processed) <= Len(BOOK_URLS)
    /\ \A i \in 1..Len(processed) : processed[i][1] = BOOK_URLS[i]
    /\ successful + failed = Len(processed)
    /\ failed_books = FailedNames(processed)
    /\ failed = Len(failed_books)
    /\ bpc = "complete" =>
          /\ Len(processed) = Len(BOOK_URLS)
          /\ successful + failed = Len(BOOK_URLS)

\* a batch that came to its end after a book failed and a later one was
\* generated
BatchWitness ==
    /\ bpc = "complete"
    /\ Len(BOOK_URLS) = MaxBooks
    /\ processed[1][2] = "scrape raised"
    /\ processed[2][2] = "no data"
    /\ processed[3][2] = "generated"
    /\ successful = 1 /\ failed = 2

(***************************************************************************)
(* make_unique_id (src/code/html_book.py, and the same function in         *)
(* src/create_html_book.py)                                                 *)
(***************************************************************************)

\* re.sub(r"\W+", "_", s): one underscore for each maximal run of
\* characters that are no word characters
ReplaceNonWord(s) ==
    LET ends == SelectSeq([i \in 1..Len(s) |-> i],
                          LAMBDA i : \/ IsWord(s[i])
                                     \/ i = Len(s)
                                     \/ IsWord(s[i + 1]))
    IN  [k \in 1..Len(ends) |-> IF IsWord(s[ends[k]]) THEN s[ends[k]] ELSE 95]

\* str(n) for a natural n, as in an f-string
RECURSIVE Decimal(_)
Decimal(n) ==
    IF n < 10 THEN <<48 + n>> ELSE Append(Decimal(n \div 10), 48 + (n % 10))

\* line 7: slug = re.sub(r"\W+", "_", name.lower().strip())
first_slug(title) == ReplaceNonWord(Strip(Lower(title)))

\* line 11: slug = f"{base}_{i}"
numbered_slug(orig, n) == orig \o <<95>> \o Decimal(n)

\* a variant of line 13 that leaves the set as it is
add_nothing(ids, element) == ids

\* line 13: existing.add(slug)
add(ids, element) == ids \cup {element}

\* lines 10-12: the while loop
RECURSIVE free_slug(_, _, _, _)
free_slug(orig, candidate, n, ids) ==
    IF candidate \in ids
    THEN free_slug(orig, numbered_slug(orig, n), n + 1, ids)
    ELSE candidate

\* the value returned and the set afterwards
make_unique_id(title, ids) ==
    LET found == free_slug(first_slug(title), first_slug(title), 1, ids)
    IN  [id |-> found, ids |-> add(ids, found)]

(***************************************************************************)
(* The id run: calls of make_unique_id, one after the other, on the same   *)
(* set, the loop taken pass by pass.                                       *)
(***************************************************************************)

MaxCalls == 3

\* "a", " A", "a 1", "b!?"
IdNames ==
    { <<97>>, <<32, 65>>, <<97, 32, 49>>, <<98, 33, 63>> }

\* "a", "a_1", "a_2", "b_"
IdPool ==
    { <<97>>, <<97, 95, 49>>, <<97, 95, 50>>, <<98, 95>> }

IdInit ==
    /\ NormIdle /\ MatchIdle /\ PruneIdle /\ SegIdle /\ TitleIdle /\ NumberIdle /\ CoreIdle /\ SoupIdle /\ BatchIdle /\ HtmlIdle /\ LessonIdle /\ CrawlIdle
    /\ existing \in SUBSET IdPool
    /\ existing_before = existing
    /\ slug = <<>>
    /\ base = <<>>
    /\ counter = 0
    /\ returned = <<>>
    /\ ipc = "ready"

\* lines 7-9: a call begins
IdCall ==
    /\ ipc = "ready"
    /\ Len(returned) < MaxCalls
    /\ \E title \in IdNames :
          /\ slug' = first_slug(title)
          /\ base' = first_slug(title)
    /\ counter' = 1
    /\ existing_before' = existing
    /\ ipc' = "loop"
    /\ UNCHANGED <<existing, returned, normVars, matchVars, pruneVars, segVars, titleVars, numberVars, coreVars, soupVars, batchVars, htmlVars, lessonVars, crawlVars>>

\* lines 10-12: one pass of the while loop
IdTaken ==
    /\ ipc = "loop"
    /\ slug \in existing
    /\ slug' = numbered_slug(base, counter)
    /\ counter' = counter + 1
    /\ UNCHANGED <<existing, existing_before, base, returned, ipc, normVars, matchVars, pruneVars, segVars, titleVars, numberVars, coreVars, soupVars, batchVars, htmlVars, lessonVars, crawlVars>>

\* lines 13-14: the slug is free
IdReturn ==
    /\ ipc = "loop"
    /\ slug \notin existing
    /\ existing' = add(existing, slug)
    /\ returned' = Append(returned, slug)
    /\ ipc' = "ready"
    /\ UNCHANGED <<existing_before, slug, base, counter, normVars, matchVars, pruneVars, segVars, titleVars, numberVars, coreVars, soupVars, batchVars, htmlVars, lessonVars, crawlVars>>

IdNext == IdCall \/ IdTaken \/ IdReturn

SpecId == IdInit /\ [][IdNext]_vars

\* a call that has begun keeps running; nothing obliges a caller to call
SpecIdLive == SpecId /\ WF_vars(IdTaken \/ IdReturn)

IdReturnedFresh ==
    /\ existing_before \subseteq existing
    /\ \A k \in 1..Len(returned) : returned[k] \in existing
    /\ \A k, l \in 1..Len(returned) : k # l => returned[k] # returned[l]
    /\ ipc = "ready" /\ returned # <<>> =>
          /\ returned[Len(returned)] \notin existing_before
          /\ existing = existing_before \cup {returned[Len(returned)]}
          /\ Cardinality(existing) = Cardinality(existing_before) + 1
    /\ ipc = "loop" => existing = existing_before

\* C28: make_unique_id(name, existing) returns an id that was not in
\* existing before the call and is in it afterwards; existing only grows,
\* by exactly one element per call, so the ids returned by any sequence of
\* calls on the same set are pairwise distinct; and the loop terminates for
\* every finite set.
UniqueIdFreshAndTerminates == [](IdReturnedFresh) /\ ((ipc = "loop") ~> (ipc = "ready"))

\* three calls with names of the same slug, on a set that held the slug and
\* its first numbered form already
UniqueIdWitness ==
    /\ ipc = "ready"
    /\ Len(returned) = 3
    /\ base = <<97>>
    /\ counter >= 4
    /\ <<97, 95, 49>> \in existing_before
    /\ returned[3] = <<97, 95>> \o Decimal(counter - 1)

(***************************************************************************)
(* save_html (src/code/html_book.py): the ids of the links in the table of *)
(* contents and the ids of the content sections.                           *)
(***************************************************************************)

\* the titles that get a link, in order: the children of an entry that has
\* children, the entry itself otherwise
RECURSIVE TocTitles(_)
TocTitles(entries) ==
    IF entries = <<>> THEN <<>>
    ELSE (IF Head(entries).children # <<>>
          THEN Head(entries).children
          ELSE <<Head(entries).title>>) \o TocTitles(Tail(entries))

\* make_unique_id called for each title in turn on the same set
RECURSIVE AssignIds(_, _, _)
AssignIds(titles, ids, given) ==
    IF titles = <<>> THEN [given |-> given, ids |-> ids]
    ELSE Local(make_unique_id(Head(titles), ids),
               LAMBDA made : AssignIds(Tail(titles), made.ids, Append(given, made.id)))

\* lines 16-45: all_ids and the set afterwards
build_hierarchical_toc_html(entries, ids) == AssignIds(TocTitles(entries), ids, <<>>)

\* lines 55-66: title_to_id[title], the id assigned last to the title
title_to_id(titles, given, title) ==
    given[CHOOSE k \in 1..Len(titles) :
              titles[k] = title /\ \A j \in (k + 1)..Len(titles) : titles[j] # title]

\* lines 68-78 and 81-117: the items written, in order
RECURSIVE Written(_, _)
Written(entries, items) ==
    IF entries = <<>> THEN <<>>
    ELSE (IF Head(entries).children # <<>>
          THEN SelectSeq(items, LAMBDA x : ~Falsy(x.parent) /\ x.parent = Head(entries).title)
          ELSE LET own == SelectSeq(items, LAMBDA x : Falsy(x.parent) /\ x.title = Head(entries).title)
               IN  IF own = <<>> THEN <<>> ELSE <<own[1]>>)
         \o Written(Tail(entries), items)

\* lines 47-119: the sections with their ids, and the set afterwards; the
\* default of title_to_id.get is evaluated for every item written
generate_content_html(items, entries, ids) ==
    LET titles == TocTitles(entries)
        first  == AssignIds(titles, ids, <<>>)
        shown  == Written(entries, items)
        spare  == AssignIds([k \in 1..Len(shown) |-> shown[k].title], first.ids, <<>>)
    IN  [sections |-> [k \in 1..Len(shown) |->
                          [title |-> shown[k].title,
                           id |-> IF \E j \in 1..Len(titles) : titles[j] = shown[k].title
                                  THEN title_to_id(titles, first.given, shown[k].title)
                                  ELSE spare.given[k]]],
         ids |-> spare.ids]

\* src/code/scraper.py lines 841-866: the content items of the lessons the
\* table of contents was built from
RECURSIVE content_items_of(_)
content_items_of(entries) ==
    IF entries = <<>> THEN <<>>
    ELSE (IF Head(entries).children # <<>>
          THEN [k \in 1..Len(Head(entries).children) |->
                   [title |-> Head(entries).children[k], parent |-> Head(entries).title]]
          ELSE << [title |-> Head(entries).title, parent |-> None] >>)
         \o content_items_of(Tail(entries))

MaxEntries == 2

\* "a", "b!?"
HtmlTitles == { <<97>>, <<98, 33, 63>> }

HtmlEntries ==
    {[title |-> t, children |-> c] :
        t \in HtmlTitles,
        c \in {<<>>} \cup {<<x>> : x \in HtmlTitles}
                     \cup {<<x, y>> : x \in HtmlTitles, y \in HtmlTitles}}

HtmlInit ==
    /\ NormIdle /\ MatchIdle /\ PruneIdle /\ SegIdle /\ TitleIdle /\ NumberIdle /\ CoreIdle /\ SoupIdle /\ BatchIdle /\ IdIdle /\ LessonIdle /\ CrawlIdle
    /\ toc \in UNION {[1..n -> HtmlEntries] : n \in 0..MaxEntries}
    /\ content_items = content_items_of(toc)
    /\ existing_ids = {}
    /\ hrefs = <<>>
    /\ sections = <<>>
    /\ hpc = "called"

\* lines 449-531
SaveHtml ==
    /\ hpc = "called"
    /\ \E links \in {build_hierarchical_toc_html(toc, existing_ids)} :
          /\ hrefs' = links.given
          /\ \E written \in {generate_content_html(content_items, toc, links.ids)} :
                /\ sections' = written.sections
                /\ existing_ids' = written.ids
    /\ hpc' = "saved"
    /\ UNCHANGED <<toc, content_items, normVars, matchVars, pruneVars, segVars, titleVars, numberVars, coreVars, soupVars, batchVars, idVars, lessonVars, crawlVars>>

HtmlNext == SaveHtml

SpecHtml == HtmlInit /\ [][HtmlNext]_vars

\* C27: in save_html, for every entry of the table of contents the id in
\* its link is the id given to the content section of the same entry, so
\* every link of the table of contents targets the id of a section that
\* exists, although both functions draw their ids from the same set.
TocLinksTargetSections ==
    hpc = "saved" =>
        \A k \in 1..Len(hrefs) :
            \E j \in 1..Len(sections) :
                /\ sections[j].title = TocTitles(toc)[k]
                /\ sections[j].id = hrefs[k]

(***************************************************************************)
(* scrape_all_lessons and get_total_pages (src/code/scraper.py): the loop  *)
(* over the lesson pages of a book.  A fetch fails (get_soup returns None) *)
(* or gives a page with some lessons and a pager, or none.                 *)
(***************************************************************************)

MaxTotalPages == 3
MaxLessonsOnPage == 1

DefaultTotalPages == 1

\* what the pager div of a fetched page holds
Pagers ==
    {[pager |-> "absent", total_pages |-> 0], [pager |-> "malformed", total_pages |-> 0]}
    \cup {[pager |-> "json", total_pages |-> n] : n \in 0..MaxTotalPages}

\* a variant that continues to a second page when the pager is missing
get_total_pages_at_least_two(found) ==
    IF found.pager = "json" THEN found.total_pages ELSE 2

\* lines 651-659
get_total_pages(found) ==
    IF found.pager = "json" THEN found.total_pages ELSE DefaultTotalPages

LessonInit ==
    /\ NormIdle /\ MatchIdle /\ PruneIdle /\ SegIdle /\ TitleIdle /\ NumberIdle /\ CoreIdle /\ SoupIdle /\ BatchIdle /\ IdIdle /\ HtmlIdle /\ CrawlIdle
    /\ page = 1
    /\ requested = <<>>
    /\ reports = <<>>
    /\ lessons = <<>>
    /\ lpc = "loop"

\* lines 760-763: the fetch fails
FetchFails ==
    /\ lpc = "loop"
    /\ requested' = Append(requested, page)
    /\ reports' = Append(reports, [fetched |-> FALSE, count |-> 0,
                                   pager |-> "absent", total_pages |-> 0])
    /\ lpc' = "done"
    /\ UNCHANGED <<page, lessons, normVars, matchVars, pruneVars, segVars, titleVars, numberVars, coreVars, soupVars, batchVars, idVars, htmlVars, crawlVars>>

\* lines 760-770: the fetch gives a page
FetchPage ==
    /\ lpc = "loop"
    /\ requested' = Append(requested, page)
    /\ \E count \in 0..MaxLessonsOnPage, found \in Pagers :
          /\ reports' = Append(reports, [fetched |-> TRUE, count |-> count,
                                         pager |-> found.pager,
                                         total_pages |-> found.total_pages])
          /\ lessons' = lessons \o [k \in 1..count |-> <<page, k>>]
          /\ IF page >= get_total_pages(found)
             THEN lpc' = "done" /\ page' = page
             ELSE lpc' = "loop" /\ page' = page + 1
    /\ UNCHANGED <<normVars, matchVars, pruneVars, segVars, titleVars, numberVars, coreVars, soupVars, batchVars, idVars, htmlVars, crawlVars>>

LessonNext == FetchFails \/ FetchPage

SpecLesson == LessonInit /\ [][LessonNext]_vars

\* get_soup returns (its loop is bounded) and the sleep of line 770 ends
SpecLessonLive == SpecLesson /\ WF_vars(LessonNext)

\* the total a fetched page reports: the pager's total_pages, 1 without one
ReportedTotal(i) ==
    IF reports[i].pager = "json" THEN reports[i].total_pages ELSE 1

\* the fetch of page i failed, or the page reported a total of at most i
StopsAt(i) == ~reports[i].fetched \/ ReportedTotal(i) <= i

RECURSIVE LessonsOfPages(_)
LessonsOfPages(i) ==
    IF i = 0 THEN <<>>
    ELSE LessonsOfPages(i - 1) \o [k \in 1..reports[i].count |-> <<i, k>>]

LessonPagesInOrder ==
    /\ Len(reports) = Len(requested)
    /\ \A i \in 1..Len(requested) : requested[i] = i
    /\ \A i \in 1..(Len(requested) - 1) : ~StopsAt(i)
    /\ lpc = "done" <=> (requested # <<>> /\ StopsAt(Len(requested)))
    /\ lessons = LessonsOfPages(Len(reports))

\* C29: scrape_all_lessons requests the lesson pages 1, 2, 3, ... one after
\* the other, each at most once; it stops at the first page whose fetch
\* fails or whose reported total_pages is at most the page number; the
\* lessons of the pages before a failed fetch are kept in the result; and
\* it terminates when the reported total_pages is bounded.
LessonPagesStopAndTerminate == [](LessonPagesInOrder) /\ <>(lpc = "done")

\* two pages fetched, each with a lesson, and the fetch of the third failed
LessonPagesWitness ==
    /\ lpc = "done"
    /\ requested = <<1, 2, 3>>
    /\ ~reports[3].fetched
    /\ lessons = << <<1, 1>>, <<2, 1>> >>

(***************************************************************************)
(* scrape_page_and_links (src/scrap.py): the recursive crawl.  The calls   *)
(* in progress form a stack; each frame holds its url, where the call is   *)
(* and the links its loop has still to go through.                         *)
(***************************************************************************)

MaxLinks == 2

\* "https://www.ebanglalibrary.com"
site_prefix ==
    <<104, 116, 116, 112, 115, 58, 47, 47, 119, 119, 119, 46, 101, 98, 97, 110,
      103, 108, 97, 108, 105, 98, 114, 97, 114, 121, 46, 99, 111, 109>>

\* two pages of the site, and the first of them in plain http
PageA == site_prefix \o <<47, 97>>
PageB == site_prefix \o <<47, 98>>
PageOther ==
    <<104, 116, 116, 112, 58, 47, 47, 119, 119, 119, 46, 101, 98, 97, 110,
      103, 108, 97, 108, 105, 98, 114, 97, 114, 121, 46, 99, 111, 109, 47, 97>>

Urls == {PageA, PageB, PageOther}

LinkLists == UNION {[1..n -> Urls] : n \in 0..MaxLinks}

\* a variant that follows every link
is_any_link(link) == TRUE

\* line 81: link.startswith("https://www.ebanglalibrary.com")
is_internal(link) == StartsWith(link, site_prefix)

CrawlInit ==
    /\ NormIdle /\ MatchIdle /\ PruneIdle /\ SegIdle /\ TitleIdle /\ NumberIdle /\ CoreIdle /\ SoupIdle /\ BatchIdle /\ IdIdle /\ HtmlIdle /\ LessonIdle
    /\ main_url \in {PageA, PageB}
    /\ links_of \in [Urls -> LinkLists]
    /\ links_of[PageOther] = <<>>
    /\ visited_urls = {}
    /\ stack = << [url |-> main_url, at |-> "entry", links |-> <<>>] >>
    /\ fetched = <<>>
    /\ saved = <<>>

Top == stack[Len(stack)]
Popped == SubSeq(stack, 1, Len(stack) - 1)
Moved(frame) == [stack EXCEPT ![Len(stack)] = frame]

\* lines 66-67: the url was visited before
CrawlSeen ==
    /\ stack # <<>>
    /\ Top.at = "entry"
    /\ Top.url \in visited_urls
    /\ stack' = Popped
    /\ UNCHANGED <<main_url, links_of, visited_urls, fetched, saved, normVars, matchVars, pruneVars, segVars, titleVars, numberVars, coreVars, soupVars, batchVars, idVars, htmlVars, lessonVars>>

\* lines 66-68: a new url
CrawlVisit ==
    /\ stack # <<>>
    /\ Top.at = "entry"
    /\ Top.url \notin visited_urls
    /\ visited_urls' = visited_urls \cup {Top.url}
    /\ stack' = Moved([Top EXCEPT !.at = "fetch"])
    /\ UNCHANGED <<main_url, links_of, fetched, saved, normVars, matchVars, pruneVars, segVars, titleVars, numberVars, coreVars, soupVars, batchVars, idVars, htmlVars, lessonVars>>

\* lines 71-73: fetch_page returns None
CrawlFetchFails ==
    /\ stack # <<>>
    /\ Top.at = "fetch"
    /\ fetched' = Append(fetched, Top.url)
    /\ stack' = Popped
    /\ UNCHANGED <<main_url, links_of, visited_urls, saved, normVars, matchVars, pruneVars, segVars, titleVars, numberVars, coreVars, soupVars, batchVars, idVars, htmlVars, lessonVars>>

\* lines 71-76: the page is fetched, parsed and saved
CrawlFetchSaves ==
    /\ stack # <<>>
    /\ Top.at = "fetch"
    /\ fetched' = Append(fetched, Top.url)
    /\ saved' = Append(saved, Top.url)
    /\ stack' = Moved([Top EXCEPT !.at = "links", !.links = links_of[Top.url]])
    /\ UNCHANGED <<main_url, links_of, visited_urls, normVars, matchVars, pruneVars, segVars, titleVars, numberVars, coreVars, soupVars, batchVars, idVars, htmlVars, lessonVars>>

\* lines 79-82: the next link is one of the site and gets its own call
CrawlFollow ==
    /\ stack # <<>>
    /\ Top.at = "links"
    /\ Top.links # <<>>
    /\ is_internal(Head(Top.links))
    /\ stack' = Append(Moved([Top EXCEPT !.links = Tail(Top.links)]),
                       [url |-> Head(Top.links), at |-> "entry", links |-> <<>>])
    /\ UNCHANGED <<main_url, links_of, visited_urls, fetched, saved, normVars, matchVars, pruneVars, segVars, titleVars, numberVars, coreVars, soupVars, batchVars, idVars, htmlVars, lessonVars>>

\* lines 79-81: the next link is not one of the site
CrawlSkip ==
    /\ stack # <<>>
    /\ Top.at = "links"
    /\ Top.links # <<>>
    /\ ~is_internal(Head(Top.links))
    /\ stack' = Moved([Top EXCEPT !.links = Tail(Top.links)])
    /\ UNCHANGED <<main_url, links_of, visited_urls, fetched, saved, normVars, matchVars, pruneVars, segVars, titleVars, numberVars, coreVars, soupVars, batchVars, idVars, htmlVars, lessonVars>>

\* the loop of line 79 is over
CrawlReturn ==
    /\ stack # <<>>
    /\ Top.at = "links"
    /\ Top.links = <<>>
    /\ stack' = Popped
    /\ UNCHANGED <<main_url, links_of, visited_urls, fetched, saved, normVars, matchVars, pruneVars, segVars, titleVars, numberVars, coreVars, soupVars, batchVars, idVars, htmlVars, lessonVars>>

CrawlNext ==
    \/ CrawlSeen \/ CrawlVisit \/ CrawlFetchFails \/ CrawlFetchSaves
    \/ CrawlFollow \/ CrawlSkip \/ CrawlReturn

SpecCrawl == CrawlInit /\ [][CrawlNext]_vars

\* fetch_page returns (timeout=10) and the other steps are local
SpecCrawlLive == SpecCrawl /\ WF_vars(CrawlNext)

NoRepeats(urls) == \A k, l \in 1..Len(urls) : k # l => urls[k] # urls[l]

CrawlOnce ==
    /\ NoRepeats(fetched)
    /\ NoRepeats(saved)
    /\ \A k \in 1..Len(saved) : \E l \in 1..Len(fetched) : fetched[l] = saved[k]
    /\ \A k \in 1..Len(fetched) : fetched[k] \in visited_urls
    /\ \A u \in visited_urls :
          \/ \E k \in 1..Len(fetched) : fetched[k] = u
          \/ stack # <<>> /\ stack[Len(stack)].url = u /\ stack[Len(stack)].at = "fetch"
    /\ \A k \in 1..Len(fetched) :
          \/ fetched[k] = main_url
          \/ SubSeq(fetched[k], 1, Len(site_prefix)) = site_prefix

\* C30: scrape_page_and_links fetches and saves every url at most once over
\* the whole crawl (a url is put into visited_urls before it is fetched,
\* also when the fetch fails), follows only links that start with the base
\* url of the site, and terminates on any finite link graph, cycles
\* included.
CrawlOnceAndTerminates == [](CrawlOnce) /\ <>(stack = <<>>)

\* a crawl that is over on a graph with a cycle between the two pages, both
\* saved, with a link off the site that was not followed
CrawlWitness ==
    /\ stack = <<>>
    /\ saved = <<PageA, PageB>>
    /\ links_of[PageA] = <<PageOther, PageB>>
    /\ links_of[PageB] = <<PageA, PageB>>
    /\ visited_urls = {PageA, PageB}

=============================================================================
